---- MODULE Spec2Model ----
(***************************************************************************)
(* owl-station / owlroost: trial scheduler (hydra/owl_hydra_run.py main),  *)
(* trial executors (_run_trial and trial_worker.run_trial) and the logging *)
(* configuration they read.                                                *)
(*                                                                         *)
(* The program has two entry points in this model: "main" is the Hydra     *)
(* runner (owl_hydra_run.main, from the trial configuration at line 160    *)
(* on), "run_trial" is a caller of trial_worker.run_trial.  The library    *)
(* functions core/override_parser.py and core/longevity.py have a          *)
(* specification each (SpecParser, SpecLongevity), whose runs call them.   *)
(***************************************************************************)
EXTENDS Integers, Sequences, FiniteSets, TLC

VARIABLES
    entry,          \* "main" | "run_trial": which entry point this run uses
    pc,             \* position of the run
    cfg,            \* cfg.trial: [count, n_jobs]
    overrides,      \* the override tree object of the parent process
    parsed,         \* history: the override tree as built at line 127
    trial_args,     \* main: the planned argument tuples
    n_trials,       \* main: n_trials
    pool,           \* main: state of Pool.starmap
    workers,        \* main: the pool's worker processes
    results,        \* the collected trial results
    summary,        \* main: what the summary logs
    dirs,           \* file system: the trial directories that exist
    exec_log,       \* history: per trial execution, the run_single_case call and its outcome
    CURRENT_LOG_LEVEL,     \* configure_logging.CURRENT_LOG_LEVEL (module global)
    tw_CURRENT_LOG_LEVEL,  \* the name bound by trial_worker's import
    sink_level,     \* level of the loguru stderr handler
    case_data,      \* run_trial: the base case's basic_info
    n_calls,        \* run_trial entry: number of run_trial calls and of configure_logging calls
    tokens,         \* parser entry: the caller's token list objects
    bld,            \* parser entry: the running call of hydra_overrides_to_dict (its locals)
    build_log,      \* parser entry: history of the finished calls
    streams,        \* longevity entry: the numpy Generator objects
    sample_log      \* longevity entry: history of the calls into longevity.py

\* the state of the scheduler and the executors
run_vars == << entry, pc, cfg, overrides, parsed, trial_args, n_trials, pool, workers,
               results, summary, dirs, exec_log,
               CURRENT_LOG_LEVEL, tw_CURRENT_LOG_LEVEL, sink_level, case_data, n_calls >>

\* the state of the library entry points (override_parser, longevity)
lib_vars == << tokens, bld, build_log, streams, sample_log >>

vars == << run_vars, lib_vars >>

-----------------------------------------------------------------------------
(* Bounds of the model *)

MaxCount == 5        \* largest trial count
MaxJobs == 2         \* largest trial.n_jobs
MaxTrialId == 3      \* largest requested trial id
MaxRunTrialCalls == 1  \* run_trial entry: calls of run_trial in one process
MaxConfigure == 1    \* run_trial entry: calls of configure_logging

-----------------------------------------------------------------------------
(* Python values.  Every value carries its type; None is its own value.    *)

NoneV == [t |-> "none"]
IntV(i) == [t |-> "int", i |-> i]
FloatV(tenths) == [t |-> "float", tenths |-> tenths]
StrV(s) == [t |-> "str", s |-> s]
ListV(l) == [t |-> "list", l |-> l]
MapV(m) == [t |-> "map", m |-> m]
EmptyMap == MapV(<< >>)

\* dict.get(key, default)
dict_get(d, key, default) ==
    IF key \in DOMAIN d.m THEN d.m[key] ELSE default

\* d[key] = value on a dict value
dict_set(d, key, value) ==
    MapV([k \in (DOMAIN d.m) \cup {key} |-> IF k = key THEN value ELSE d.m[k]])

\* int(v) succeeds on ints and (finite) floats only
int_ok(v) == v.t \in {"int", "float"}

\* int(v): floats truncate toward zero
int_of(v) ==
    IF v.t = "int" THEN v.i
    ELSE IF v.tenths >= 0 THEN v.tenths \div 10 ELSE -((-v.tenths) \div 10)

-----------------------------------------------------------------------------
(* owl_hydra_run.py                                                        *)

master_seed == 12345

\* _extract_trial_override: any exception (no dict under "trial", None or a
\* non-numeric value given to int) gives the default.
_extract_trial_override(ov, key, default) ==
    LET trial == dict_get(ov, "trial", EmptyMap) IN
    IF trial.t # "map" THEN default
    ELSE LET v == dict_get(trial, key, default) IN
         IF int_ok(v) THEN IntV(int_of(v)) ELSE default

\* np.random.SeedSequence(entropy)
SeedSequence(entropy) ==
    [entropy |-> entropy, spawn_key |-> << >>, n_children_spawned |-> 0]

\* spawn with the child key counted from the end of the batch (n - j): the key
\* of child j then depends on how many children are spawned
spawn_count_keyed(ss, n) ==
    [j \in 1..n |->
        [entropy |-> ss.entropy,
         spawn_key |-> Append(ss.spawn_key, ss.n_children_spawned + n - j),
         n_children_spawned |-> 0]]

\* SeedSequence.spawn(n): child j extends the parent's spawn key by its index
\* among all children spawned so far; an n <= 0 gives no children.
spawn(ss, n) ==
    [j \in 1..n |->
        [entropy |-> ss.entropy,
         spawn_key |-> Append(ss.spawn_key, ss.n_children_spawned + j - 1),
         n_children_spawned |-> 0]]

RECURSIVE HashKey(_, _)
HashKey(h, key) ==
    IF key = << >> THEN h
    ELSE HashKey((h * 33 + Head(key) + 1) % 65536, Tail(key))

\* int(seq.generate_state(1)[0]): one unsigned word hashed from the entropy and
\* the spawn key (the word is narrowed to 16 bits here).
generate_state(ss) == HashKey(ss.entropy % 65536, ss.spawn_key)

\* lines 171: use_trial_seeds
use_trial_seeds(trial_id_override, trial_count_override) ==
    trial_id_override # NoneV \/ trial_count_override.i > 1

\* lines 181-201: single explicit trial
PlanExplicit(trial_id_override, trial_count_override) ==
    LET trial_id == trial_id_override.i
        trial_seqs == spawn(SeedSequence(master_seed), trial_id + 1)
        trial_seed == IF use_trial_seeds(trial_id_override, trial_count_override)
                      THEN IntV(generate_state(trial_seqs[trial_id + 1]))
                      ELSE NoneV
    IN  << [trial_id |-> trial_id, trial_seed |-> trial_seed] >>

\* lines 203-213: trial count 1, no seed override
PlanUnseeded == << [trial_id |-> 0, trial_seed |-> NoneV] >>

\* the multi-trial loop generating every seed from the parent sequence ss
\* instead of trial_seqs[i]
PlanMulti_parent_seed(n) ==
    [j \in 1..n |-> [trial_id |-> j - 1,
                     trial_seed |-> IntV(generate_state(SeedSequence(master_seed)))]]

\* lines 218-233: normal multi-trial execution
PlanMulti(n) ==
    LET trial_seqs == spawn(SeedSequence(master_seed), n) IN
    [j \in 1..n |-> [trial_id |-> j - 1,
                     trial_seed |-> IntV(generate_state(trial_seqs[j]))]]

\* the branches of lines 181-233 with the count test ahead of the id test
PlanArgs_count_first(ov, count_default) ==
    LET trial_id_override == _extract_trial_override(ov, "id", NoneV)
        trial_count_override == _extract_trial_override(ov, "count", IntV(count_default))
    IN  IF trial_count_override.i = 1 THEN PlanUnseeded
        ELSE IF trial_id_override # NoneV
        THEN PlanExplicit(trial_id_override, trial_count_override)
        ELSE PlanMulti(trial_count_override.i)

\* lines 164-233: the planned argument tuples (case_file, overrides and run_dir
\* are the same objects in every tuple)
PlanArgs(ov, count_default) ==
    LET trial_id_override == _extract_trial_override(ov, "id", NoneV)
        trial_count_override == _extract_trial_override(ov, "count", IntV(count_default))
    IN  IF trial_id_override # NoneV
        THEN PlanExplicit(trial_id_override, trial_count_override)
        ELSE IF trial_count_override.i = 1 THEN PlanUnseeded
        ELSE PlanMulti(trial_count_override.i)

\* lines 201, 213, 219: n_trials
PlanNTrials(ov, count_default) ==
    LET trial_id_override == _extract_trial_override(ov, "id", NoneV)
        trial_count_override == _extract_trial_override(ov, "count", IntV(count_default))
    IN  IF trial_id_override # NoneV THEN 1
        ELSE IF trial_count_override.i = 1 THEN 1
        ELSE trial_count_override.i

-----------------------------------------------------------------------------
(* Trial directories and the two executors                                 *)

Digit(d) ==
    CASE d = 0 -> "0" [] d = 1 -> "1" [] d = 2 -> "2" [] d = 3 -> "3" [] d = 4 -> "4"
      [] d = 5 -> "5" [] d = 6 -> "6" [] d = 7 -> "7" [] d = 8 -> "8" [] d = 9 -> "9"

RECURSIVE Decimal(_)
Decimal(n) == IF n < 10 THEN Digit(n) ELSE Decimal(n \div 10) \o Digit(n % 10)

RECURSIVE ZeroPad(_, _)
ZeroPad(s, width) == IF Len(s) >= width THEN s ELSE ZeroPad("0" \o s, width)

\* f"{trial_id:04d}": sign, then the decimal digits zero-padded to a total
\* width of four; longer numbers are not cut
fmt04d(trial_id) ==
    IF trial_id >= 0 THEN ZeroPad(Decimal(trial_id), 4)
    ELSE "-" \o ZeroPad(Decimal(-trial_id), 3)

\* run_dir / "trials" / f"{trial_id:04d}"
trial_dir_of(trial_id) == << "run_dir", "trials", fmt04d(trial_id) >>

\* trial_dir / f"{case_file.stem}.xlsx"
output_file_of(trial_id) == Append(trial_dir_of(trial_id), "case.xlsx")

\* Path.parent
Parent(path) == SubSeq(path, 1, Len(path) - 1)

\* overrides = dict(base_overrides); overrides.setdefault(key, {})[sub] = value
\* The copy is shallow: a nested dict that base_overrides already holds under
\* `key` is the same object in both, so the store goes into the base tree as
\* well.  Gives the merged tree and the base tree after the store.
setdefault_store(merged, base, key, sub, value) ==
    IF key \in DOMAIN merged.m
    THEN [merged |-> dict_set(merged, key, dict_set(merged.m[key], sub, value)),
          base   |-> IF key \in DOMAIN base.m
                     THEN dict_set(base, key, dict_set(base.m[key], sub, value))
                     ELSE base]
    ELSE [merged |-> dict_set(merged, key, dict_set(EmptyMap, sub, value)),
          base   |-> base]

\* _run_trial storing the seed without the test of line 60
_run_trial_overrides_always(base_overrides, trial_seed) ==
    setdefault_store(base_overrides, base_overrides, "rates", "rate_seed", trial_seed)

\* _run_trial lines 59-61
_run_trial_overrides(base_overrides, trial_seed) ==
    IF trial_seed # NoneV
    THEN setdefault_store(base_overrides, base_overrides, "rates", "rate_seed", trial_seed)
    ELSE [merged |-> base_overrides, base |-> base_overrides]

\* _run_trial lines 76-81
_run_trial_result(trial_id, trial_seed, status) ==
    [trial_id |-> trial_id,
     seed     |-> trial_seed,
     status   |-> status,
     output   |-> IF status = "solved" THEN StrV(output_file_of(trial_id)) ELSE NoneV]

\* the executor without the mkdir of line 55 / line 30
mkdir_missing(files, path) == files

\* trial_dir.mkdir(parents=True, exist_ok=True)
mkdir(files, path) == files \cup {path}

\* run_single_case(case_file, overrides, output_file) is entered: what the
\* solver is handed, and whether the trial directory exists at that moment
SolverCall(merged, output_file, files) ==
    [t           |-> "call",
     overrides   |-> merged,
     output_file |-> output_file,
     dir_exists  |-> Parent(output_file) \in files]

\* history entry of one trial execution
NewExec(trial_id) ==
    [trial_id |-> trial_id, solver_calls |-> 0, call |-> NoneV,
     reported |-> "none", result |-> NoneV]

\* statuses run_single_case reports (plan.caseStatus); "solved" or anything else
Statuses == {"solved", "infeasible"}

-----------------------------------------------------------------------------
(* multiprocessing.Pool.starmap as main uses it (lines 248-249)             *)

\* chunksize of Pool._map_async: ceil(len / (4 * processes)), 0 for no tasks
ChunkSize(len, processes) ==
    IF len = 0 THEN 0
    ELSE (len \div (processes * 4)) + (IF len % (processes * 4) # 0 THEN 1 ELSE 0)

\* number of task batches
NumChunks(len, chunksize) ==
    IF chunksize = 0 THEN 0 ELSE (len + chunksize - 1) \div chunksize

\* first and last position in trial_args of batch c
ChunkFirst(c, chunksize) == (c - 1) * chunksize + 1
ChunkLast(c, chunksize, len) ==
    IF c * chunksize < len THEN c * chunksize ELSE len

IdleWorker == [chunk |-> 0, pos |-> 0, out |-> << >>, tree |-> NoneV]

RECURSIVE ConcatChunks(_, _)
\* the batches' result lists, the last batch first
ConcatChunks_last_first(value, c) ==
    IF c = 0 THEN << >> ELSE value[c].res \o ConcatChunks(value, c - 1)

\* MapResult._value: the batches' result lists at their own positions
ConcatChunks(value, c) ==
    IF c = 0 THEN << >> ELSE ConcatChunks(value, c - 1) \o value[c].res

-----------------------------------------------------------------------------
(* Summary (lines 254-269)                                                 *)

IsSolved(r) == r.status = "solved"
\* the failed filter matching one status word only
IsFailed_error_only(r) == r.status = "error"
IsFailed(r) == r.status # "solved"

\* line 254
SolvedOf(rs) == SelectSeq(rs, IsSolved)
\* line 255
FailedOf(rs) == SelectSeq(rs, IsFailed)

\* lines 257-269: the two log messages
SummaryOf(rs) ==
    LET solved == SolvedOf(rs)
        failed == FailedOf(rs)
    IN  [t |-> "summary",
         solved |-> Len(solved),
         failed |-> Len(failed),
         failed_ids |-> [j \in 1..Len(failed) |-> failed[j].trial_id]]

-----------------------------------------------------------------------------
(* Entry point main: owl_hydra_run.main from line 160                      *)

\* lines 160-233
Plan ==
    /\ entry = "main" /\ pc = "PLANNING"
    /\ trial_args' = PlanArgs(overrides, cfg.count)
    /\ n_trials' = PlanNTrials(overrides, cfg.count)
    /\ exec_log' = [j \in 1..Len(trial_args') |-> NewExec(trial_args'[j].trial_id)]
    /\ pc' = "RUNNING"
    /\ UNCHANGED lib_vars
    /\ UNCHANGED << entry, cfg, overrides, parsed, pool, workers, results, summary, dirs,
                    CURRENT_LOG_LEVEL, tw_CURRENT_LOG_LEVEL, sink_level, case_data, n_calls >>

\* line 246, _run_trial up to the call of run_single_case (lines 54-74); the
\* executor works in the parent process on the parent's override tree
RunInline ==
    /\ entry = "main" /\ pc = "RUNNING" /\ n_trials = 1
    /\ LET a == trial_args[1]
           r == _run_trial_overrides(overrides, a.trial_seed)
           files == mkdir(dirs, trial_dir_of(a.trial_id))
       IN  /\ dirs' = files
           /\ overrides' = r.base
           /\ exec_log' = [exec_log EXCEPT
                             ![1].solver_calls = @ + 1,
                             ![1].call = SolverCall(r.merged, output_file_of(a.trial_id), files)]
    /\ pc' = "INLINE_SOLVING"
    /\ UNCHANGED lib_vars
    /\ UNCHANGED << entry, cfg, parsed, trial_args, n_trials, pool, workers, results, summary,
                    CURRENT_LOG_LEVEL, tw_CURRENT_LOG_LEVEL, sink_level, case_data, n_calls >>

\* run_single_case returns a status; _run_trial lines 76-81, results of line 246
InlineSolverReturn(status) ==
    /\ entry = "main" /\ pc = "INLINE_SOLVING"
    /\ LET a == trial_args[1]
           res == _run_trial_result(a.trial_id, a.trial_seed, status)
       IN  /\ results' = << res >>
           /\ exec_log' = [exec_log EXCEPT ![1].reported = status, ![1].result = res]
    /\ pc' = "SUMMARIZING"
    /\ UNCHANGED lib_vars
    /\ UNCHANGED << entry, cfg, overrides, parsed, trial_args, n_trials, pool, workers, summary,
                    dirs, CURRENT_LOG_LEVEL, tw_CURRENT_LOG_LEVEL, sink_level, case_data, n_calls >>

\* run_single_case raises; nothing in _run_trial or main catches it
InlineSolverRaise ==
    /\ entry = "main" /\ pc = "INLINE_SOLVING"
    /\ exec_log' = [exec_log EXCEPT ![1].reported = "raised"]
    /\ pc' = "ABORTED"
    /\ UNCHANGED lib_vars
    /\ UNCHANGED << entry, cfg, overrides, parsed, trial_args, n_trials, pool, workers, results,
                    summary, dirs, CURRENT_LOG_LEVEL, tw_CURRENT_LOG_LEVEL, sink_level,
                    case_data, n_calls >>

\* lines 248-249: the pool is created and starmap queues the task batches
PoolStart ==
    /\ entry = "main" /\ pc = "RUNNING" /\ n_trials # 1
    /\ LET chunksize == ChunkSize(Len(trial_args), cfg.n_jobs)
           nchunks == NumChunks(Len(trial_args), chunksize)
       IN  pool' = [t |-> "pool", chunksize |-> chunksize, next |-> 1,
                    value |-> [c \in 1..nchunks |-> [t |-> "pending"]]]
    /\ workers' = [w \in 1..cfg.n_jobs |-> IdleWorker]
    /\ pc' = "POOL"
    /\ UNCHANGED lib_vars
    /\ UNCHANGED << entry, cfg, overrides, parsed, trial_args, n_trials, results, summary, dirs,
                    exec_log, CURRENT_LOG_LEVEL, tw_CURRENT_LOG_LEVEL, sink_level,
                    case_data, n_calls >>

\* a worker starts _run_trial on tuple j (lines 54-74, up to the call of
\* run_single_case) with the override tree it holds for the batch: the
\* directory, the worker's tree after the stores, the history entry
StartTuple(j, tree, files, log) ==
    LET a == trial_args[j]
        r == _run_trial_overrides(tree, a.trial_seed)
        made == mkdir(files, trial_dir_of(a.trial_id))
    IN  [dirs |-> made,
         tree |-> r.base,
         exec_log |-> [log EXCEPT
                         ![j].solver_calls = @ + 1,
                         ![j].call = SolverCall(r.merged, output_file_of(a.trial_id), made)]]

\* an idle worker takes the next batch from the task queue and starts its
\* first tuple.  The batch is unpickled in the worker, which gives the worker
\* one copy of the override tree, shared by the batch's tuples.  The workers
\* are interchangeable: the idle worker with the lowest number takes.
WorkerTake(w) ==
    /\ entry = "main" /\ pc = "POOL"
    /\ w \in DOMAIN workers
    /\ workers[w].chunk = 0
    /\ \A v \in 1..(w - 1) : workers[v].chunk # 0
    /\ pool.next <= Len(pool.value)
    /\ LET j == ChunkFirst(pool.next, pool.chunksize)
           st == StartTuple(j, overrides, dirs, exec_log)
       IN  /\ workers' = [workers EXCEPT ![w] =
                            [chunk |-> pool.next, pos |-> j, out |-> << >>,
                             tree |-> st.tree]]
           /\ dirs' = st.dirs
           /\ exec_log' = st.exec_log
    /\ pool' = [pool EXCEPT !.next = @ + 1]
    /\ UNCHANGED lib_vars
    /\ UNCHANGED << entry, pc, cfg, overrides, parsed, trial_args, n_trials, results, summary,
                    CURRENT_LOG_LEVEL, tw_CURRENT_LOG_LEVEL, sink_level, case_data, n_calls >>

\* run_single_case returns in a worker: _run_trial returns its result (lines
\* 76-81).  After the batch's last tuple the batch's result list goes back to
\* the parent; otherwise the worker starts the batch's next tuple.
WorkerSolverReturn(w, status) ==
    /\ entry = "main" /\ pc = "POOL"
    /\ w \in DOMAIN workers
    /\ workers[w].chunk # 0
    /\ LET j == workers[w].pos
           c == workers[w].chunk
           a == trial_args[j]
           res == _run_trial_result(a.trial_id, a.trial_seed, status)
           out == Append(workers[w].out, res)
           log == [exec_log EXCEPT ![j].reported = status, ![j].result = res]
       IN  IF j = ChunkLast(c, pool.chunksize, Len(trial_args))
           THEN /\ pool' = [pool EXCEPT !.value[c] = [t |-> "ok", res |-> out]]
                /\ workers' = [workers EXCEPT ![w] = IdleWorker]
                /\ exec_log' = log
                /\ dirs' = dirs
           ELSE LET st == StartTuple(j + 1, workers[w].tree, dirs, log) IN
                /\ pool' = pool
                /\ workers' = [workers EXCEPT ![w].pos = j + 1, ![w].out = out,
                                              ![w].tree = st.tree]
                /\ exec_log' = st.exec_log
                /\ dirs' = st.dirs
    /\ UNCHANGED lib_vars
    /\ UNCHANGED << entry, pc, cfg, overrides, parsed, trial_args, n_trials, results, summary,
                    CURRENT_LOG_LEVEL, tw_CURRENT_LOG_LEVEL, sink_level, case_data, n_calls >>

\* run_single_case raises in a worker: the exception ends the batch (its
\* remaining tuples are not run) and is sent back in place of the result list
WorkerSolverRaise(w) ==
    /\ entry = "main" /\ pc = "POOL"
    /\ w \in DOMAIN workers
    /\ workers[w].chunk # 0
    /\ exec_log' = [exec_log EXCEPT ![workers[w].pos].reported = "raised"]
    /\ pool' = [pool EXCEPT !.value[workers[w].chunk] = [t |-> "err"]]
    /\ workers' = [workers EXCEPT ![w] = IdleWorker]
    /\ UNCHANGED lib_vars
    /\ UNCHANGED << entry, pc, cfg, overrides, parsed, trial_args, n_trials, results, summary,
                    dirs, CURRENT_LOG_LEVEL, tw_CURRENT_LOG_LEVEL, sink_level,
                    case_data, n_calls >>

\* starmap returning as soon as the first batch has reported, with that
\* batch's results
PoolReturn_first_batch ==
    /\ entry = "main" /\ pc = "POOL"
    /\ Len(pool.value) >= 1 /\ pool.value[1].t = "ok"
    /\ results' = pool.value[1].res
    /\ pc' = "SUMMARIZING"
    /\ UNCHANGED lib_vars
    /\ UNCHANGED << entry, cfg, overrides, parsed, trial_args, n_trials, pool, workers, summary,
                    dirs, exec_log, CURRENT_LOG_LEVEL, tw_CURRENT_LOG_LEVEL, sink_level,
                    case_data, n_calls >>

\* starmap returns when every batch has reported: the ordered result list
PoolReturn ==
    /\ entry = "main" /\ pc = "POOL"
    /\ \A c \in DOMAIN pool.value : pool.value[c].t = "ok"
    /\ results' = ConcatChunks(pool.value, Len(pool.value))
    /\ pc' = "SUMMARIZING"
    /\ UNCHANGED lib_vars
    /\ UNCHANGED << entry, cfg, overrides, parsed, trial_args, n_trials, pool, workers, summary,
                    dirs, exec_log, CURRENT_LOG_LEVEL, tw_CURRENT_LOG_LEVEL, sink_level,
                    case_data, n_calls >>

\* starmap re-raises a batch's exception once every batch has reported; main
\* does not catch it, so lines 254-269 are not reached
PoolRaise ==
    /\ entry = "main" /\ pc = "POOL"
    /\ \A c \in DOMAIN pool.value : pool.value[c].t # "pending"
    /\ \E c \in DOMAIN pool.value : pool.value[c].t = "err"
    /\ pc' = "ABORTED"
    /\ UNCHANGED lib_vars
    /\ UNCHANGED << entry, cfg, overrides, parsed, trial_args, n_trials, pool, workers, results,
                    summary, dirs, exec_log, CURRENT_LOG_LEVEL, tw_CURRENT_LOG_LEVEL,
                    sink_level, case_data, n_calls >>

\* lines 254-269
Summarize ==
    /\ entry = "main" /\ pc = "SUMMARIZING"
    /\ summary' = SummaryOf(results)
    /\ pc' = "DONE"
    /\ UNCHANGED lib_vars
    /\ UNCHANGED << entry, cfg, overrides, parsed, trial_args, n_trials, pool, workers, results,
                    dirs, exec_log, CURRENT_LOG_LEVEL, tw_CURRENT_LOG_LEVEL, sink_level,
                    case_data, n_calls >>

-----------------------------------------------------------------------------
(* core/configure_logging.py and hydra/trial_worker.py                     *)

LOG_LEVELS == {"TRACE", "DEBUG", "INFO", "SUCCESS", "WARNING", "ERROR", "CRITICAL"}

\* configure_logging with line 89 assigning the module global
configure_logging_global(log_level, current_global) ==
    IF log_level = NoneV
    THEN [CURRENT_LOG_LEVEL |-> current_global, sink |-> NoneV, configured |-> FALSE]
    ELSE [CURRENT_LOG_LEVEL |-> log_level, sink |-> log_level, configured |-> TRUE]

\* configure_logging(log_level) for None or a level of LOG_LEVELS.  Line 89
\* assigns CURRENT_LOG_LEVEL inside the function without a `global`
\* statement: the assignment makes a local name, the module global keeps its
\* value.  The handler added at lines 91-98 gets the level.
configure_logging(log_level, current_global) ==
    IF log_level = NoneV
    THEN [CURRENT_LOG_LEVEL |-> current_global, sink |-> NoneV, configured |-> FALSE]
    ELSE [CURRENT_LOG_LEVEL |-> current_global, sink |-> log_level, configured |-> TRUE]

\* trial_worker.run_trial lines 33-65: the merged overrides and the base tree
\* after the stores (the copy of line 33 is shallow, as in _run_trial)
run_trial_overrides(base_overrides, rates_seed, longevity_seed, life_exp) ==
    LET s1 == IF rates_seed # NoneV
              THEN setdefault_store(base_overrides, base_overrides,
                                    "rates", "rate_seed", rates_seed)
              ELSE [merged |-> base_overrides, base |-> base_overrides]
    IN  IF longevity_seed # NoneV
        THEN LET s2 == setdefault_store(s1.merged, s1.base, "basic_info",
                                        "life_expectancy", ListV(life_exp))
             IN  setdefault_store(s2.merged, s2.base, "basic_info",
                                  "longevity_seed", longevity_seed)
        ELSE s1

(* core/longevity.py                                                       *)
(*                                                                         *)
(* Floats are fixed-point numbers here: multipliers in hundredths, the     *)
(* product k with six decimals (a product is cut to six decimals),         *)
(* probabilities and cumulated hazards with four decimals, sampled         *)
(* lifetimes in hundredths of a year.  Ages are whole years.               *)

A_BASE == 9        \* 0.0009, in units of 1e-4
B_BASE == 10       \* 0.000010, in units of 1e-6
C_BASE == 110      \* 0.110, in units of 1e-3

\* the table with no gain for excellent health
HEALTH_MULTIPLIERS_no_gain == [excellent |-> 100, average |-> 100, poor |-> 115]

HEALTH_MULTIPLIERS == [excellent |-> 85, average |-> 100, poor |-> 115]

C_HEALTH_ADJUSTMENT == [excellent |-> 96, average |-> 100, poor |-> 105]
SEX_MULTIPLIER == [female |-> 92, male |-> 108]
MARRIAGE_MULTIPLIER == 97

max_age == 120     \* gm_sample_lifetime: default of max_age

\* age_dependent_smoker_multiplier(age), in hundredths
age_dependent_smoker_multiplier(age) ==
    IF age < 40 THEN 230
    ELSE IF 40 <= age /\ age <= 80 THEN 100 + ((220 - 100) * (80 - age)) \div 40
    ELSE IF 80 < age /\ age <= 90 THEN 130
    ELSE 110

\* k *= m for a multiplier in hundredths
TimesHundredths(k, m) == (k * m) \div 100

\* adjust_parameters without the test of lines 222-223: an unknown sex fails
\* at the lookup SEX_MULTIPLIER[sex]
adjust_parameters_no_sex_test(health, age, sex, smoker, married) ==
    IF health \notin DOMAIN HEALTH_MULTIPLIERS
    THEN [t |-> "raise", kind |-> "ValueError", text |-> "Invalid health level",
          value |-> health, allowed |-> << "excellent", "average", "poor" >>]
    ELSE IF sex \notin DOMAIN SEX_MULTIPLIER
    THEN [t |-> "raise", kind |-> "KeyError", text |-> "", value |-> sex, allowed |-> << >>]
    ELSE LET k1 == TimesHundredths(HEALTH_MULTIPLIERS[health] * 10000, SEX_MULTIPLIER[sex])
             k2 == IF smoker THEN TimesHundredths(k1, age_dependent_smoker_multiplier(age))
                   ELSE k1
             k3 == IF married THEN TimesHundredths(k2, MARRIAGE_MULTIPLIER) ELSE k2
         IN  [t |-> "ok", A |-> A_BASE * k3, B |-> B_BASE * k3,
              C |-> C_BASE * C_HEALTH_ADJUSTMENT[health]]

\* adjust_parameters(health, age, sex, smoker, married): the ValueError of
\* lines 217-223 (its text, the value it quotes, the allowed values it
\* lists), or A in units of 1e-10, B in units of 1e-12, C in units of 1e-5
adjust_parameters(health, age, sex, smoker, married) ==
    IF health \notin DOMAIN HEALTH_MULTIPLIERS
    THEN [t |-> "raise", kind |-> "ValueError", text |-> "Invalid health level",
          value |-> health, allowed |-> << "excellent", "average", "poor" >>]
    ELSE IF sex \notin DOMAIN SEX_MULTIPLIER
    THEN [t |-> "raise", kind |-> "ValueError", text |-> "sex must be",
          value |-> sex, allowed |-> << "male", "female" >>]
    ELSE LET k1 == TimesHundredths(HEALTH_MULTIPLIERS[health] * 10000, SEX_MULTIPLIER[sex])
             k2 == IF smoker THEN TimesHundredths(k1, age_dependent_smoker_multiplier(age))
                   ELSE k1
             k3 == IF married THEN TimesHundredths(k2, MARRIAGE_MULTIPLIER) ELSE k2
         IN  [t |-> "ok", A |-> A_BASE * k3, B |-> B_BASE * k3,
              C |-> C_BASE * C_HEALTH_ADJUSTMENT[health]]

\* a * b / d without leaving 32 bits (for d <= 10000 and b < 200000)
MulDiv(a, b, d) == (a \div d) * b + ((a % d) * b) \div d

\* the Taylor series of exp(-f) from term k on, for 0 <= f < 1 in units of 1e-4
RECURSIVE ExpNegSeries(_, _, _)
ExpNegSeries(term, k, f) ==
    IF term = 0 \/ k > 12 THEN 0
    ELSE term - ExpNegSeries((term * f) \div (10000 * (k + 1)), k + 1, f)

\* r * exp(-n) for a whole number n (exp(-1) is 0.3679)
RECURSIVE TimesExpNeg(_, _)
TimesExpNeg(r, n) ==
    IF n = 0 \/ r = 0 THEN r ELSE TimesExpNeg(MulDiv(r, 3679, 10000), n - 1)

\* np.exp(-h) for h >= 0, both in units of 1e-4
exp_neg(h) == TimesExpNeg(ExpNegSeries(10000, 0, h % 10000), h \div 10000)

\* the Taylor series of exp(f) from term k on, for 0 <= f < 1 in units of 1e-4
RECURSIVE ExpSeries(_, _, _)
ExpSeries(term, k, f) ==
    IF term = 0 \/ k > 12 THEN 0
    ELSE term + ExpSeries((term * f) \div (10000 * (k + 1)), k + 1, f)

\* exp(n) for n = 0, 1, ..., 13, in units of 1e-3
ExpWhole == << 1000, 2718, 7389, 20085, 54598, 148413, 403428, 1096633, 2980957, 8103083, 22026465, 59874141, 162754791, 442413392 >>

\* np.exp(C * age) for C in units of 1e-5 and a whole age, in units of 1e-3
exp_growth(C, age) ==
    MulDiv(ExpWhole[((C * age) \div 100000) + 1],
           ExpSeries(10000, 0, ((C * age) % 100000) \div 10), 10000)

\* the exponent of survival_function, A*x + (B/C)*(exp(C*x) - 1), in units of 1e-4
cumulated_hazard(age, A, B, C) ==
    ((A \div 100) * age) \div 10000
    + MulDiv((exp_growth(C, age) - 1000) \div 10, (B * 10) \div C, 10000) \div 100

\* lines 184-190: F[j] = 1 - S(ages[j]) / S(current_age) over the grid
\* ages = current_age, current_age + 1, ..., max_age, in units of 1e-4
conditional_cdf(current_age, A, B, C) ==
    [j \in 1..(max_age + 1 - current_age) |->
        10000 - exp_neg(cumulated_hazard(current_age + j - 1, A, B, C)
                        - cumulated_hazard(current_age, A, B, C))]

\* the binary search of np.interp: the last grid point of lo..hi whose F is at
\* most u, for F[lo] <= u
RECURSIVE grid_point_below(_, _, _, _)
grid_point_below(u, F, lo, hi) ==
    IF lo = hi THEN lo
    ELSE IF F[(lo + hi + 1) \div 2] <= u
         THEN grid_point_below(u, F, (lo + hi + 1) \div 2, hi)
         ELSE grid_point_below(u, F, lo, ((lo + hi + 1) \div 2) - 1)

\* np.interp(u, F, ages) for F[1] <= u and the n grid ages first_age,
\* first_age + 1, ...: between the grid points around u the age grows
\* linearly; from the last grid point on it is the last age.  In hundredths of
\* a year.
interp(u, F, n, first_age) ==
    LET j == grid_point_below(u, F, 1, n) IN
    IF j = n THEN (first_age + j - 1) * 100
    ELSE (first_age + j - 1) * 100 + ((u - F[j]) * 100) \div (F[j + 1] - F[j])

\* np.random.default_rng(seed): a new Generator object
default_rng(seed) == [seed |-> seed, state |-> (seed * 31 + 7) % 65536, draws |-> 0]

\* the step of the bit generator (16 bits of state here)
NextState(state) == (state * 25173 + 13849) % 65536

\* rng.uniform() drawing from the first Generator of the process whatever
\* Generator it was given
uniform_first_generator(heap, rng) ==
    [value |-> (NextState(heap[1].state) * 10000) \div 65536,
     heap  |-> [heap EXCEPT ![1].state = NextState(@), ![1].draws = @ + 1]]

\* rng.uniform(): the Generator object heap[rng] steps once and gives a value
\* of [0, 1), in units of 1e-4
uniform(heap, rng) ==
    [value |-> (NextState(heap[rng].state) * 10000) \div 65536,
     heap  |-> [heap EXCEPT ![rng].state = NextState(@), ![rng].draws = @ + 1]]

\* gm_sample_lifetime with the grid and the survival taken from age 0 on, not
\* from current_age on
gm_sample_lifetime_from_birth(heap, rng, current_age, A, B, C) ==
    LET d == uniform(heap, rng) IN
    [value |-> interp(d.value, conditional_cdf(0, A, B, C), max_age + 1, 0),
     heap  |-> d.heap]

\* gm_sample_lifetime(rng, current_age, A, B, C): the sampled lifetime and the
\* heap after the draw
gm_sample_lifetime(heap, rng, current_age, A, B, C) ==
    LET d == uniform(heap, rng) IN
    [value |-> interp(d.value, conditional_cdf(current_age, A, B, C),
                      max_age + 1 - current_age, current_age),
     heap  |-> d.heap]

\* sample_individual_lifetime drawing from the stream before it validates
sample_individual_lifetime_draw_first(heap, rng, current_age, health, sex, smoker, married) ==
    LET d == uniform(heap, rng)
        p == adjust_parameters(health, current_age, sex, smoker, married)
    IN  IF p.t = "raise" THEN [t |-> "raise", raised |-> p, heap |-> d.heap]
        ELSE LET g == gm_sample_lifetime(heap, rng, current_age, p.A, p.B, p.C) IN
             [t |-> "ok", value |-> g.value, heap |-> g.heap]

\* sample_individual_lifetime(rng, current_age, health, sex, smoker, married)
sample_individual_lifetime(heap, rng, current_age, health, sex, smoker, married) ==
    LET p == adjust_parameters(health, current_age, sex, smoker, married) IN
    IF p.t = "raise" THEN [t |-> "raise", raised |-> p, heap |-> heap]
    ELSE LET g == gm_sample_lifetime(heap, rng, current_age, p.A, p.B, p.C) IN
         [t |-> "ok", value |-> g.value, heap |-> g.heap]

Max2(a, b) == IF a >= b THEN a ELSE b

\* sample_joint_last_survivor sampling the second person first
sample_joint_last_survivor_second_first(heap, rng, age1, age2, health1, health2, sex1, sex2, smoker1, smoker2, married) ==
    LET life2 == sample_individual_lifetime(heap, rng, age2, health2, sex2, smoker2, married)
    IN  IF life2.t = "raise" THEN life2
        ELSE LET life1 == sample_individual_lifetime(life2.heap, rng, age1, health1, sex1,
                                                     smoker1, married)
             IN  IF life1.t = "raise" THEN life1
                 ELSE [t |-> "ok",
                       value |-> << Max2(life1.value, life2.value), life1.value, life2.value >>,
                       heap |-> life1.heap]

\* sample_joint_last_survivor(rng, age1, age2, health1, health2, sex1, sex2,
\* smoker1, smoker2, married)
sample_joint_last_survivor(heap, rng, age1, age2, health1, health2, sex1, sex2, smoker1, smoker2, married) ==
    LET life1 == sample_individual_lifetime(heap, rng, age1, health1, sex1, smoker1, married)
    IN  IF life1.t = "raise" THEN life1
        ELSE LET life2 == sample_individual_lifetime(life1.heap, rng, age2, health2, sex2,
                                                     smoker2, married)
             IN  IF life2.t = "raise" THEN life2
                 ELSE [t |-> "ok",
                       value |-> << Max2(life1.value, life2.value), life1.value, life2.value >>,
                       heap |-> life2.heap]

-----------------------------------------------------------------------------
(* trial_worker.run_trial                                                  *)

\* line 77: the guard around the call of run_single_case
solver_guard(level) == level \notin {StrV("TRACE"), StrV("DEBUG")}

\* lines 89-95
run_trial_result(trial_id, rates_seed, longevity_seed, status) ==
    [trial_id |-> trial_id,
     rates_seed |-> rates_seed,
     longevity_seed |-> longevity_seed,
     status |-> status,
     output |-> IF status = "solved" THEN StrV(output_file_of(trial_id)) ELSE NoneV]

\* CaseData.get(key, default) on the base case's basic_info
case_get(basic_info, key, default) ==
    IF key \in DOMAIN basic_info THEN basic_info[key] ELSE default

\* ["x"] * n
Repeat(x, n) == [i \in 1..n |-> x]

\* the comprehension of lines 54-62 with a Generator made anew for every
\* person
RECURSIVE sample_persons_fresh_rng(_, _, _)
sample_persons_fresh_rng(heap, basic_info, i) ==
    LET ages == basic_info.life_expectancy
        n == Len(ages)
    IN  IF i > n THEN << >>
        ELSE LET life == sample_individual_lifetime(
                            heap, 1, ages[i],
                            case_get(basic_info, "health", Repeat("average", n))[i],
                            case_get(basic_info, "sex", Repeat("female", n))[i],
                            case_get(basic_info, "smoker", Repeat(FALSE, n))[i],
                            case_get(basic_info, "married", TRUE))
             IN  << IntV(life.value \div 100) >> \o sample_persons_fresh_rng(heap, basic_info, i + 1)

\* lines 54-62 from person i on: the comprehension draws for the persons in
\* their order from the one Generator heap[1], and int() cuts each sample to
\* whole years
RECURSIVE sample_persons(_, _, _)
sample_persons(heap, basic_info, i) ==
    LET ages == basic_info.life_expectancy
        n == Len(ages)
    IN  IF i > n THEN << >>
        ELSE LET life == sample_individual_lifetime(
                            heap, 1, ages[i],
                            case_get(basic_info, "health", Repeat("average", n))[i],
                            case_get(basic_info, "sex", Repeat("female", n))[i],
                            case_get(basic_info, "smoker", Repeat(FALSE, n))[i],
                            case_get(basic_info, "married", TRUE))
             IN  << IntV(life.value \div 100) >> \o sample_persons(life.heap, basic_info, i + 1)

\* lines 40-62: life_exp, sampled with rng = np.random.default_rng(longevity_seed)
\* (the base case's health and sex entries are valid ones)
sampled_life_expectancy(basic_info, longevity_seed) ==
    sample_persons(<< default_rng(longevity_seed.i) >>, basic_info, 1)


-----------------------------------------------------------------------------
(* Entry point run_trial: a process that configures logging, imports       *)
(* trial_worker and calls run_trial                                        *)

TWTrialIds == {7, 12345}
TWSeeds == {NoneV, IntV(41)}

\* a call of configure_logging (bootstrap_logging, or main line 111), before
\* or after trial_worker is imported and before the process runs trials
TWConfigureLogging(log_level) ==
    /\ entry = "run_trial" /\ pc \in {"TW_BOOT", "TW_READY"}
    /\ n_calls.configure < MaxConfigure
    /\ n_calls.run_trial = 0
    /\ LET c == configure_logging(log_level, CURRENT_LOG_LEVEL)
       IN  /\ CURRENT_LOG_LEVEL' = c.CURRENT_LOG_LEVEL
           /\ sink_level' = IF c.configured THEN c.sink ELSE sink_level
    /\ n_calls' = [n_calls EXCEPT !.configure = @ + 1]
    /\ UNCHANGED lib_vars
    /\ UNCHANGED << entry, pc, cfg, overrides, parsed, trial_args, n_trials, pool, workers,
                    results, summary, dirs, exec_log, tw_CURRENT_LOG_LEVEL, case_data >>

\* trial_worker line 9: `from ... import CURRENT_LOG_LEVEL` binds the value
\* the global has at import time
TWImport ==
    /\ entry = "run_trial" /\ pc = "TW_BOOT"
    /\ tw_CURRENT_LOG_LEVEL' = CURRENT_LOG_LEVEL
    /\ pc' = "TW_READY"
    /\ UNCHANGED lib_vars
    /\ UNCHANGED << entry, cfg, overrides, parsed, trial_args, n_trials, pool, workers,
                    results, summary, dirs, exec_log, CURRENT_LOG_LEVEL, sink_level,
                    case_data, n_calls >>

\* run_trial lines 29-87, up to the call of run_single_case.  When the guard
\* of line 77 is false, `result` is unbound at line 93 and run_trial raises.
TWRunTrial(trial_id, rates_seed, longevity_seed) ==
    /\ entry = "run_trial" /\ pc = "TW_READY"
    /\ n_calls.run_trial < MaxRunTrialCalls
    /\ LET life_exp == IF longevity_seed # NoneV
                       THEN sampled_life_expectancy(case_data, longevity_seed) ELSE << >>
           r == run_trial_overrides(overrides, rates_seed, longevity_seed, life_exp)
           files == mkdir(dirs, trial_dir_of(trial_id))
       IN  /\ dirs' = files
           /\ overrides' = r.base
           /\ IF solver_guard(tw_CURRENT_LOG_LEVEL)
              THEN /\ exec_log' = << [NewExec(trial_id) EXCEPT
                                       !.solver_calls = 1,
                                       !.call = SolverCall(r.merged, output_file_of(trial_id),
                                                           files)] >>
                   /\ pc' = "TW_SOLVING"
              ELSE /\ exec_log' = << [NewExec(trial_id) EXCEPT !.reported = "unbound"] >>
                   /\ pc' = "ABORTED"
    /\ trial_args' = << [trial_id |-> trial_id, rates_seed |-> rates_seed,
                         longevity_seed |-> longevity_seed, base_overrides |-> overrides] >>
    /\ results' = << >>
    /\ n_calls' = [n_calls EXCEPT !.run_trial = @ + 1]
    /\ UNCHANGED lib_vars
    /\ UNCHANGED << entry, cfg, parsed, n_trials, pool, workers, summary,
                    CURRENT_LOG_LEVEL, tw_CURRENT_LOG_LEVEL, sink_level, case_data >>

\* run_single_case returns a status: run_trial lines 89-95
TWSolverReturn(status) ==
    /\ entry = "run_trial" /\ pc = "TW_SOLVING"
    /\ LET a == trial_args[1]
           res == run_trial_result(a.trial_id, a.rates_seed, a.longevity_seed, status)
       IN  /\ results' = << res >>
           /\ exec_log' = [exec_log EXCEPT ![1].reported = status, ![1].result = res]
    /\ pc' = "TW_READY"
    /\ UNCHANGED lib_vars
    /\ UNCHANGED << entry, cfg, overrides, parsed, trial_args, n_trials, pool, workers, summary,
                    dirs, CURRENT_LOG_LEVEL, tw_CURRENT_LOG_LEVEL, sink_level, case_data,
                    n_calls >>

\* run_single_case raises: run_trial does not catch it
TWSolverRaise ==
    /\ entry = "run_trial" /\ pc = "TW_SOLVING"
    /\ exec_log' = [exec_log EXCEPT ![1].reported = "raised"]
    /\ pc' = "ABORTED"
    /\ UNCHANGED lib_vars
    /\ UNCHANGED << entry, cfg, overrides, parsed, trial_args, n_trials, pool, workers, results,
                    summary, dirs, CURRENT_LOG_LEVEL, tw_CURRENT_LOG_LEVEL, sink_level,
                    case_data, n_calls >>

-----------------------------------------------------------------------------
(* Initial states                                                          *)

\* the tree hydra_overrides_to_dict builds for a two-segment token key.sub=value
StoreToken(tree, key, sub, value) ==
    setdefault_store(tree, tree, key, sub, value).merged

\* values of a trial.id token: absent, an integer, a float, a word
IdTokens == {NoneV, FloatV(25), StrV("abc")} \cup {IntV(k) : k \in 0..MaxTrialId}

\* values of a trial.count token: absent, or an integer.  Hydra applies the
\* token to cfg.trial.count as well; without the token cfg.trial.count is the
\* default of the configuration file.
CountTokens == {NoneV} \cup {IntV(k) : k \in 0..MaxCount}
DefaultCounts == {1, 2}

\* the trees of the token lists [trial.id=..] [trial.count=..] [rates.method=stochastic]
MainTree(id_token, count_token, has_rates) ==
    LET t1 == IF id_token # NoneV THEN StoreToken(EmptyMap, "trial", "id", id_token)
              ELSE EmptyMap
        t2 == IF count_token # NoneV THEN StoreToken(t1, "trial", "count", count_token)
              ELSE t1
    IN  IF has_rates THEN StoreToken(t2, "rates", "method", StrV("stochastic")) ELSE t2

\* the trees of the token lists [rates.method=stochastic] [basic_info.status=single]
WorkerTree(has_rates, has_basic_info) ==
    LET t1 == IF has_rates THEN StoreToken(EmptyMap, "rates", "method", StrV("stochastic"))
              ELSE EmptyMap
    IN  IF has_basic_info THEN StoreToken(t1, "basic_info", "status", StrV("single")) ELSE t1

\* basic_info of the base case: one person, a couple, and a couple whose risk
\* attributes are given and differ
CaseDataChoices ==
    { [life_expectancy |-> << 89 >>],
      [life_expectancy |-> << 89, 92 >>],
      [life_expectancy |-> << 60, 62 >>, health |-> << "poor", "excellent" >>,
       sex |-> << "male", "female" >>, smoker |-> << TRUE, FALSE >>, married |-> FALSE] }

\* the library entry points are not in use
LibIdle ==
    /\ tokens = << >> /\ bld = NoneV /\ build_log = << >>
    /\ streams = << >> /\ sample_log = << >>

InitMain ==
    /\ entry = "main" /\ pc = "PLANNING"
    /\ \E id_token \in IdTokens, count_token \in CountTokens, count_default \in DefaultCounts,
          has_rates \in BOOLEAN, n_jobs \in 1..MaxJobs :
          /\ overrides = MainTree(id_token, count_token, has_rates)
          /\ cfg = [count  |-> IF count_token = NoneV THEN count_default ELSE count_token.i,
                    n_jobs |-> n_jobs]
    /\ parsed = overrides
    /\ trial_args = << >> /\ n_trials = 0 /\ exec_log = << >>
    /\ pool = NoneV /\ workers = << >> /\ results = << >> /\ summary = NoneV
    /\ dirs = {}
    /\ CURRENT_LOG_LEVEL = NoneV /\ tw_CURRENT_LOG_LEVEL = NoneV /\ sink_level = NoneV
    /\ case_data = NoneV
    /\ n_calls = [run_trial |-> 0, configure |-> 0]
    /\ LibIdle

InitRunTrial ==
    /\ entry = "run_trial" /\ pc = "TW_BOOT"
    /\ \E has_rates \in BOOLEAN, has_basic_info \in BOOLEAN :
          overrides = WorkerTree(has_rates, has_basic_info)
    /\ parsed = overrides
    /\ case_data \in CaseDataChoices
    /\ cfg = NoneV
    /\ trial_args = << >> /\ n_trials = 0 /\ exec_log = << >>
    /\ pool = NoneV /\ workers = << >> /\ results = << >> /\ summary = NoneV
    /\ dirs = {}
    /\ CURRENT_LOG_LEVEL = NoneV /\ tw_CURRENT_LOG_LEVEL = NoneV /\ sink_level = NoneV
    /\ n_calls = [run_trial |-> 0, configure |-> 0]
    /\ LibIdle

Init == InitMain \/ InitRunTrial

Next ==
    \/ Plan
    \/ RunInline
    \/ \E status \in Statuses : InlineSolverReturn(status)
    \/ InlineSolverRaise
    \/ PoolStart
    \/ \E w \in 1..MaxJobs : WorkerTake(w)
    \/ \E w \in 1..MaxJobs, status \in Statuses : WorkerSolverReturn(w, status)
    \/ \E w \in 1..MaxJobs : WorkerSolverRaise(w)
    \/ PoolReturn
    \/ PoolRaise
    \/ Summarize
    \/ \E level \in {NoneV} \cup {StrV(l) : l \in LOG_LEVELS} : TWConfigureLogging(level)
    \/ TWImport
    \/ \E trial_id \in TWTrialIds, rates_seed \in TWSeeds, longevity_seed \in TWSeeds :
          TWRunTrial(trial_id, rates_seed, longevity_seed)
    \/ \E status \in Statuses : TWSolverReturn(status)
    \/ TWSolverRaise

Spec == Init /\ [][Next]_vars

-----------------------------------------------------------------------------
(* core/override_parser.py: hydra_overrides_to_dict                        *)
(*                                                                         *)
(* A token is a Python str, here the sequence of its characters; a         *)
(* character is a one-character string, and "sup2" stands for the single   *)
(* character U+00B2 (superscript two).                                     *)

DecimalDigits == {"0", "1", "2", "3", "4", "5", "6", "7", "8", "9"}

\* characters str.isdigit() accepts that are not decimal digits
OtherDigits == {"sup2"}

\* the str made of the characters of s
RECURSIVE Join(_)
Join(s) == IF s = << >> THEN "" ELSE Head(s) \o Join(Tail(s))

\* position of the first c in s, 0 when there is none
RECURSIVE IndexOf(_, _)
IndexOf(s, c) ==
    IF s = << >> THEN 0
    ELSE IF Head(s) = c THEN 1
    ELSE LET r == IndexOf(Tail(s), c) IN IF r = 0 THEN 0 ELSE r + 1

\* str.split(sep): the pieces between the separators, empty pieces included
RECURSIVE split(_, _)
split(s, sep) ==
    LET p == IndexOf(s, sep) IN
    IF p = 0 THEN << s >>
    ELSE << SubSeq(s, 1, p - 1) >> \o split(SubSeq(s, p + 1, Len(s)), sep)

\* str.isdigit(): not empty and every character a digit
isdigit(s) == s # << >> /\ \A i \in 1..Len(s) : s[i] \in DecimalDigits \cup OtherDigits

IsDecimal(s) == \A i \in 1..Len(s) : s[i] \in DecimalDigits

DigitValue(c) ==
    CASE c = "0" -> 0 [] c = "1" -> 1 [] c = "2" -> 2 [] c = "3" -> 3 [] c = "4" -> 4
      [] c = "5" -> 5 [] c = "6" -> 6 [] c = "7" -> 7 [] c = "8" -> 8 [] c = "9" -> 9

RECURSIVE DecimalValue(_, _)
DecimalValue(acc, s) ==
    IF s = << >> THEN acc ELSE DecimalValue(acc * 10 + DigitValue(Head(s)), Tail(s))

\* a raised exception
Raise(kind, msg) == [t |-> "raise", kind |-> kind, msg |-> msg]

\* int(s) for a str that passed isdigit(): decimal digits give the number,
\* any other digit character is "invalid literal for int()"
int_str(s) ==
    IF IsDecimal(s) THEN IntV(DecimalValue(0, s))
    ELSE Raise("ValueError", "invalid literal for int() with base 10: '" \o Join(s) \o "'")

StripSign(s) == IF s # << >> /\ Head(s) \in {"-", "+"} THEN Tail(s) ELSE s

\* the mantissa of a decimal float literal: digits with at most one point
\* and at least one digit
MantissaOk(m) ==
    LET d == IndexOf(m, ".") IN
    IF d = 0 THEN m # << >> /\ IsDecimal(m)
    ELSE LET ip == SubSeq(m, 1, d - 1)
             fp == SubSeq(m, d + 1, Len(m))
         IN  IsDecimal(ip) /\ IsDecimal(fp) /\ (ip # << >> \/ fp # << >>)

ExponentOk(e) == StripSign(e) # << >> /\ IsDecimal(StripSign(e))

\* position of the exponent letter in a float literal, 0 when there is none
ExponentAt(body) ==
    IF IndexOf(body, "e") # 0 THEN IndexOf(body, "e") ELSE IndexOf(body, "E")

MantissaOf(body) ==
    IF ExponentAt(body) = 0 THEN body ELSE SubSeq(body, 1, ExponentAt(body) - 1)

ExponentOf(body) ==
    IF ExponentAt(body) = 0 THEN << >> ELSE SubSeq(body, ExponentAt(body) + 1, Len(body))

\* float(s) accepts [sign] mantissa [e [sign] digits].  (float() also takes
\* inf, nan, surrounding blanks and underscores between digits; no token of
\* this model holds one.)
float_ok(s) ==
    /\ MantissaOk(MantissaOf(StripSign(s)))
    /\ ExponentAt(StripSign(s)) # 0 => ExponentOk(ExponentOf(StripSign(s)))

RECURSIVE Pow10(_)
Pow10(n) == IF n = 0 THEN 1 ELSE 10 * Pow10(n - 1)

\* the number a signed digit string stands for (0 for the empty string)
SignedValue(x) ==
    IF x # << >> /\ Head(x) = "-" THEN -DecimalValue(0, Tail(x))
    ELSE DecimalValue(0, StripSign(x))

\* a mantissa in tenths (digits after the first decimal are cut)
MantissaTenths(m) ==
    IF IndexOf(m, ".") = 0 THEN DecimalValue(0, m) * 10
    ELSE DecimalValue(0, SubSeq(m, 1, IndexOf(m, ".") - 1)) * 10
         + (IF IndexOf(m, ".") = Len(m) THEN 0 ELSE DigitValue(m[IndexOf(m, ".") + 1]))

ScaleTenths(t, x) == IF x >= 0 THEN t * Pow10(x) ELSE t \div Pow10(-x)

\* the value of float(s) in tenths
float_tenths(s) ==
    (IF s # << >> /\ Head(s) = "-" THEN -1 ELSE 1)
    * ScaleTenths(MantissaTenths(MantissaOf(StripSign(s))),
                  SignedValue(ExponentOf(StripSign(s))))

\* coerce_value, lines 7-13: isdigit() decides for int(); float() is tried on
\* everything else; a str float() rejects stays as it is
coerce_value(value) ==
    IF isdigit(value) THEN int_str(value)
    ELSE IF float_ok(value) THEN FloatV(float_tenths(value))
    ELSE StrV(Join(value))

\* line 43 / 62: the container for the next level
NewContainer(next_part) ==
    IF next_part # << >> /\ isdigit(next_part) THEN ListV(<< >>) ELSE EmptyMap

\* lines 55-56 building a new list of placeholders when the list is too
\* short, instead of appending to it
extend_reset(l, idx) ==
    IF Len(l) > idx THEN l ELSE [j \in 1..(idx + 1) |-> NoneV]

\* lines 55-56: while len(cur) <= idx: cur.append(None)
extend(l, idx) ==
    [j \in 1..(IF Len(l) > idx THEN Len(l) ELSE idx + 1) |->
        IF j <= Len(l) THEN l[j] ELSE NoneV]

\* the outcome of a walk: the node after the stores below it, and the list
\* stores made on the way (history: list before, index, list after)
Walked(node, stores) == [t |-> "ok", node |-> node, stores |-> stores]

\* an exception raised at a path segment: `node` is the type of the node the
\* segment was applied to, `segment` is "index" for a digit segment and
\* "key" for any other
RaiseAt(kind, msg, node, segment) ==
    [t |-> "raise", kind |-> kind, msg |-> msg, node |-> node, segment |-> segment]

\* lines 30-63: the loop over the segments from position i on, with cur the
\* node reached.  cur is an alias into result in the code; the walk gives the
\* node as it is after the stores made through it.
RECURSIVE walk(_, _, _, _, _)
walk(cur, parts, i, value, key) ==
    LET part == parts[i]
        is_last == i = Len(parts)
        next_part == IF is_last THEN << >> ELSE parts[i + 1]
    IN
    IF ~isdigit(part)
    THEN \* dictionary key
         IF cur.t # "map"
         THEN \* `part not in cur`, cur[part] = ... or cur[part] on a list, a
              \* str or a number: all end in a TypeError
              RaiseAt("TypeError", "not a dict", cur.t, "key")
         ELSE IF is_last
         THEN Walked(dict_set(cur, Join(part), value), << >>)
         ELSE LET child == IF Join(part) \in DOMAIN cur.m THEN cur.m[Join(part)]
                           ELSE NewContainer(next_part)
                  below == walk(child, parts, i + 1, value, key)
              IN  IF below.t = "raise" THEN below
                  ELSE Walked(dict_set(cur, Join(part), below.node), below.stores)
    ELSE \* list index
         LET n == int_str(part) IN
         IF n.t = "raise" THEN RaiseAt(n.kind, n.msg, cur.t, "index")
         ELSE IF cur.t # "list"
         THEN RaiseAt("RuntimeError", "Invalid list index at '" \o Join(key) \o "'",
                      cur.t, "index")
         ELSE LET idx == n.i
                  grown == extend(cur.l, idx)
              IN  IF is_last
                  THEN LET after == [grown EXCEPT ![idx + 1] = value] IN
                       Walked(ListV(after),
                              << [before |-> cur.l, idx |-> idx, after |-> after] >>)
                  ELSE LET child == IF grown[idx + 1] = NoneV THEN NewContainer(next_part)
                                    ELSE grown[idx + 1]
                           below == walk(child, parts, i + 1, value, key)
                       IN  IF below.t = "raise" THEN below
                           ELSE LET after == [grown EXCEPT ![idx + 1] = below.node] IN
                                Walked(ListV(after),
                                       << [before |-> cur.l, idx |-> idx, after |-> after] >>
                                       \o below.stores)

\* the locals of a call: the token list, the tree built so far, the values
\* coerce_value returned (history), the list stores made (history) and the
\* tree as it was after each token that a store was made for (history)
Frame(overrides_arg, result) ==
    [overrides |-> overrides_arg, result |-> result, raised |-> NoneV,
     coerced |-> << >>, stores |-> << >>, trees |-> << >>]

\* lines 17-63 for one token
build_item(f, item) ==
    IF IndexOf(item, "=") = 0 THEN f
    ELSE LET eq == IndexOf(item, "=")
             key == SubSeq(item, 1, eq - 1)
             raw_value == SubSeq(item, eq + 1, Len(item))
             value == coerce_value(raw_value)
             parts == split(key, ".")
             g == [f EXCEPT !.coerced = Append(@, [raw |-> raw_value, value |-> value])]
         IN  IF value.t = "raise"
             THEN [g EXCEPT !.raised = RaiseAt(value.kind, value.msg, "none", "value")]
             ELSE IF Len(parts) < 2 THEN g
             ELSE LET w == walk(g.result, parts, 1, value, key) IN
                  IF w.t = "raise" THEN [g EXCEPT !.raised = w]
                  ELSE [g EXCEPT !.result = w.node, !.stores = @ \o w.stores,
                                 !.trees = Append(@, w.node)]

\* the loop of line 17; an exception ends the call
RECURSIVE build_items(_, _)
build_items(f, items) ==
    IF items = << >> \/ f.raised # NoneV THEN f
    ELSE build_items(build_item(f, Head(items)), Tail(items))

\* the function with `result` kept in the module between calls
hydra_overrides_to_dict_shared(overrides_arg, last) ==
    build_items(Frame(overrides_arg, IF last = NoneV THEN EmptyMap ELSE last.result),
                overrides_arg)

\* hydra_overrides_to_dict(overrides): line 15 starts every call with a new
\* empty dict, whatever the last call (its frame `last`) left behind
hydra_overrides_to_dict(overrides_arg, last) ==
    build_items(Frame(overrides_arg, EmptyMap), overrides_arg)

\* what the caller gets: the tree, or the exception
Outcome(f) == IF f.raised # NoneV THEN f.raised ELSE [t |-> "ok", tree |-> f.result]

-----------------------------------------------------------------------------
(* Entry point parser: a caller of hydra_overrides_to_dict                  *)

MaxTokens == 2       \* parser entry: longest token list
MaxBuilds == 3       \* parser entry: calls of hydra_overrides_to_dict in one run

\* the tokens of the model, each with its text
TokenChoices ==
    {
      << "a", ".", "b", "=", "1" >>,                \* a.b=1
      << "a", ".", "b", ".", "0", "=", "2" >>,      \* a.b.0=2
      << "a", ".", "0", "=", "2" >>,                \* a.0=2
      << "x", ".", "2", "=", "7" >>,                \* x.2=7
      << "x", ".", "0", "=", "1" >>,                \* x.0=1
      << "x", ".", "k", "=", "2" >>,                \* x.k=2
      << "a", ".", "b", "=", "-", "5" >>,           \* a.b=-5
      << "a", ".", "b", "=", "1", ".", "5" >>,      \* a.b=1.5
      << "a", ".", "b", "=", "t", "r", "u", "e" >>, \* a.b=true
      << "a", ".", "b", "=", "n", "u", "l", "l" >>, \* a.b=null
      << "n", "o", "e", "q" >>,                     \* noeq
      << "a", "=", "1" >>,                          \* a=1
      << "a", "=", "sup2" >>,                       \* a=(U+00B2)
      << "x", ".", "1", ".", "k", "=", "5" >>       \* x.1.k=5
    }

\* the token lists of at most n tokens
RECURSIVE TokenLists(_)
TokenLists(n) ==
    IF n = 0 THEN { << >> }
    ELSE TokenLists(n - 1)
         \cup { Append(l, tk) : l \in { m \in TokenLists(n - 1) : Len(m) = n - 1 },
                                tk \in TokenChoices }

\* the second token list object of a run: one whose build raises, one whose
\* build returns a tree
OtherLists ==
    { << << "a", ".", "b", "=", "1" >>, << "a", ".", "b", ".", "0", "=", "2" >> >>,
      << << "x", ".", "2", "=", "7" >> >> }

InitParser ==
    /\ entry = "parser" /\ pc = "PARSER"
    /\ \E l1 \in TokenLists(MaxTokens), l2 \in OtherLists : tokens = << l1, l2 >>
    /\ bld = NoneV /\ build_log = << >>
    /\ streams = << >> /\ sample_log = << >>
    /\ cfg = NoneV /\ overrides = EmptyMap /\ parsed = EmptyMap
    /\ trial_args = << >> /\ n_trials = 0 /\ exec_log = << >>
    /\ pool = NoneV /\ workers = << >> /\ results = << >> /\ summary = NoneV
    /\ dirs = {}
    /\ CURRENT_LOG_LEVEL = NoneV /\ tw_CURRENT_LOG_LEVEL = NoneV /\ sink_level = NoneV
    /\ case_data = NoneV
    /\ n_calls = [run_trial |-> 0, configure |-> 0]

\* a call hydra_overrides_to_dict(tokens[i]): the whole function.  A run builds
\* its second list object at most once.
Build(i) ==
    /\ entry = "parser" /\ pc = "PARSER"
    /\ Len(build_log) < MaxBuilds
    /\ i = 2 => \A c \in 1..Len(build_log) : build_log[c].list # 2
    /\ LET f == hydra_overrides_to_dict(tokens[i], bld) IN
          /\ bld' = f
          /\ tokens' = [tokens EXCEPT ![i] = f.overrides]
          /\ build_log' = Append(build_log,
                                 [list |-> i, tokens |-> tokens[i], after |-> f.overrides,
                                  outcome |-> Outcome(f), coerced |-> f.coerced,
                                  stores |-> f.stores, trees |-> f.trees])
    /\ UNCHANGED << run_vars, streams, sample_log >>

NextParser == \E i \in 1..2 : Build(i)

SpecParser == InitParser /\ [][NextParser]_vars

-----------------------------------------------------------------------------
(* Entry point "longevity": a caller of core/longevity.py that holds two   *)
(* Generators and the attributes of two persons (in case_data, laid out as *)
(* the basic_info of a case) and calls the sampler on them                 *)

MaxSamples == 2      \* longevity entry: calls into longevity.py in one run

\* the seeds of the caller's two Generators: the same seed twice, or two seeds
\* of which the first draws the lowest value a stream gives (0.0) and the
\* second the highest (0.9999) as their first value
SeedPairs == { << 999, 999 >>, << 7979, 5139 >> }

\* current ages, health tiers and sexes the caller passes ("fair" and "other"
\* are not among the valid ones)
AgeChoices == {0, 40, 60, 81, max_age}
HealthSexChoices ==
    ({"excellent", "average", "poor"} \X {"female", "male"})
        \cup { << "fair", "male" >>, << "poor", "other" >> }

\* the second person: a valid one, or one with an unknown health tier
SecondPersons == { << 62, "excellent", "female", FALSE >>, << 60, "fair", "male", TRUE >> }

\* the arguments of a call for person i
PersonArgs(i) ==
    [current_age |-> case_data.life_expectancy[i], health |-> case_data.health[i],
     sex |-> case_data.sex[i], smoker |-> case_data.smoker[i], married |-> case_data.married]

\* history entry of a call: the Generator it was given (0: none), that
\* Generator's seed and number of earlier draws, the arguments, how the call
\* ended, and the number of draws of every Generator after the call
SampleEntry(op, rng, args, outcome, heap) ==
    [op |-> op, rng |-> rng,
     seed |-> IF rng = 0 THEN 0 ELSE streams[rng].seed,
     draws |-> IF rng = 0 THEN 0 ELSE streams[rng].draws,
     args |-> args, outcome |-> outcome,
     draws_after |-> [r \in 1..Len(heap) |-> heap[r].draws]]

\* what a call gives its caller: the value, or the exception
Returned(r) ==
    IF r.t = "ok" THEN [t |-> "ok", value |-> r.value]
    ELSE [t |-> "raise", kind |-> r.raised.kind, text |-> r.raised.text,
          value |-> r.raised.value, allowed |-> r.raised.allowed]

InitLongevity ==
    /\ entry = "longevity" /\ pc = "SAMPLER"
    /\ \E seeds \in SeedPairs : streams = << default_rng(seeds[1]), default_rng(seeds[2]) >>
    /\ \E age \in AgeChoices, hs \in HealthSexChoices, smoker \in BOOLEAN, married \in BOOLEAN,
          second \in SecondPersons :
          case_data = [life_expectancy |-> << age, second[1] >>,
                       health |-> << hs[1], second[2] >>,
                       sex |-> << hs[2], second[3] >>,
                       smoker |-> << smoker, second[4] >>,
                       married |-> married]
    /\ sample_log = << >>
    /\ tokens = << >> /\ bld = NoneV /\ build_log = << >>
    /\ cfg = NoneV /\ overrides = EmptyMap /\ parsed = EmptyMap
    /\ trial_args = << >> /\ n_trials = 0 /\ exec_log = << >>
    /\ pool = NoneV /\ workers = << >> /\ results = << >> /\ summary = NoneV
    /\ dirs = {}
    /\ CURRENT_LOG_LEVEL = NoneV /\ tw_CURRENT_LOG_LEVEL = NoneV /\ sink_level = NoneV
    /\ n_calls = [run_trial |-> 0, configure |-> 0]

\* adjust_parameters(health, age, sex, smoker, married) for the first person
AdjustParameters ==
    /\ entry = "longevity" /\ pc = "SAMPLER"
    /\ Len(sample_log) < MaxSamples
    /\ LET a == PersonArgs(1)
           p == adjust_parameters(a.health, a.current_age, a.sex, a.smoker, a.married)
       IN  sample_log' = Append(sample_log,
               SampleEntry("adjust_parameters", 0, a,
                           IF p.t = "ok" THEN [t |-> "ok", value |-> << p.A, p.B, p.C >>]
                           ELSE Returned([t |-> "raise", raised |-> p]),
                           streams))
    /\ UNCHANGED << run_vars, tokens, bld, build_log, streams >>

\* sample_individual_lifetime(rng, ...) for the first person
SampleIndividual(rng) ==
    /\ entry = "longevity" /\ pc = "SAMPLER"
    /\ Len(sample_log) < MaxSamples
    /\ LET a == PersonArgs(1)
           r == sample_individual_lifetime(streams, rng, a.current_age, a.health, a.sex,
                                           a.smoker, a.married)
       IN  /\ streams' = r.heap
           /\ sample_log' = Append(sample_log,
                  SampleEntry("sample_individual_lifetime", rng, a, Returned(r), r.heap))
    /\ UNCHANGED << run_vars, tokens, bld, build_log >>

\* sample_joint_last_survivor(rng, ...) for the two persons
SampleJoint(rng) ==
    /\ entry = "longevity" /\ pc = "SAMPLER"
    /\ Len(sample_log) < MaxSamples
    /\ LET a == PersonArgs(1)
           b == PersonArgs(2)
           r == sample_joint_last_survivor(streams, rng, a.current_age, b.current_age,
                                           a.health, b.health, a.sex, b.sex,
                                           a.smoker, b.smoker, a.married)
       IN  /\ streams' = r.heap
           /\ sample_log' = Append(sample_log,
                  SampleEntry("sample_joint_last_survivor", rng, << a, b >>, Returned(r), r.heap))
    /\ UNCHANGED << run_vars, tokens, bld, build_log >>

NextLongevity ==
    \/ AdjustParameters
    \/ \E rng \in 1..2 : SampleIndividual(rng)
    \/ SampleJoint(1)

SpecLongevity == InitLongevity /\ [][NextLongevity]_vars

-----------------------------------------------------------------------------
(* Entry point "smoker": a caller that asks age_dependent_smoker_multiplier *)
(* for an age and then for the same or a later age                          *)

MaxAskedAge == 125   \* smoker entry: highest age asked for

\* age_dependent_smoker_multiplier(age), for an age not below the age of the
\* call before
SmokerMultiplier(age) ==
    /\ entry = "smoker" /\ pc \in {"ASK_FIRST", "ASK_SECOND"}
    /\ \A c \in 1..Len(sample_log) : sample_log[c].args.age <= age
    /\ sample_log' = Append(sample_log,
           [op |-> "age_dependent_smoker_multiplier", args |-> [age |-> age],
            outcome |-> [t |-> "ok", value |-> age_dependent_smoker_multiplier(age)]])
    /\ pc' = IF pc = "ASK_FIRST" THEN "ASK_SECOND" ELSE "ASKED"
    /\ UNCHANGED << entry, cfg, overrides, parsed, trial_args, n_trials, pool, workers,
                    results, summary, dirs, exec_log, CURRENT_LOG_LEVEL, tw_CURRENT_LOG_LEVEL,
                    sink_level, case_data, n_calls, tokens, bld, build_log, streams >>

InitSmoker ==
    /\ entry = "smoker" /\ pc = "ASK_FIRST"
    /\ sample_log = << >> /\ streams = << >>
    /\ tokens = << >> /\ bld = NoneV /\ build_log = << >>
    /\ cfg = NoneV /\ overrides = EmptyMap /\ parsed = EmptyMap
    /\ trial_args = << >> /\ n_trials = 0 /\ exec_log = << >>
    /\ pool = NoneV /\ workers = << >> /\ results = << >> /\ summary = NoneV
    /\ dirs = {}
    /\ CURRENT_LOG_LEVEL = NoneV /\ tw_CURRENT_LOG_LEVEL = NoneV /\ sink_level = NoneV
    /\ case_data = NoneV
    /\ n_calls = [run_trial |-> 0, configure |-> 0]

NextSmoker == \E age \in 0..MaxAskedAge : SmokerMultiplier(age)

SpecSmoker == InitSmoker /\ [][NextSmoker]_vars

-----------------------------------------------------------------------------------------------------------------------------------------------------
(* Entry point "roost run": cli/cmd_run.py validates the case, starts        *)
(* owl_hydra_run.py with the command's tokens, and main builds the override  *)
(* tree from them (line 127) before it plans and runs the trials            *)

MaxTrials == 3       \* roost run: largest --trials

\* str(n) of a number n >= 0, one character per element
RECURSIVE str_int(_)
str_int(n) == IF n < 10 THEN << Digit(n) >> ELSE Append(str_int(n \div 10), Digit(n % 10))

\* get_rate_selection_method, line 43: data.get("rates_selection", {}).get("method")
get_rate_selection_method(case) ==
    IF "rates_selection" \in DOMAIN case /\ "method" \in DOMAIN case.rates_selection
    THEN StrV(case.rates_selection.method)
    ELSE NoneV

\* validate_rate_method_for_trials: None when it returns, else the exception
validate_rate_method_for_trials(rate_method, trials, trial_id) ==
    LET requires_stochastic == (trials # NoneV /\ trials.i > 1)
                               \/ (trial_id # NoneV /\ trial_id.i # 0)
    IN  IF ~requires_stochastic THEN NoneV
        ELSE IF rate_method \in {StrV("stochastic"), StrV("histocastic")} THEN NoneV
        ELSE Raise("ClickException", "Invalid rate_selection.method for trial execution.")

\* the keys of the tokens build_hydra_command writes
TrialCountKey == << "t", "r", "i", "a", "l", ".", "c", "o", "u", "n", "t" >>
TrialNJobsKey == << "t", "r", "i", "a", "l", ".", "n", "_", "j", "o", "b", "s" >>
TrialIdKey == << "t", "r", "i", "a", "l", ".", "i", "d" >>

\* f"{key}={value}" appended when the option is given
OptionToken(key, value) ==
    IF value = NoneV THEN << >> ELSE << key \o << "=" >> \o str_int(value.i) >>

\* build_hydra_command, lines 136-154: the override tokens of the command
\* (the task overrides Hydra hands to main as hc.overrides.task)
build_hydra_command(overrides_arg, trials, trial_jobs, run_jobs, trial_id) ==
    LET case_file == << "C", "a", "s", "e", ".", "t", "o", "m", "l" >> IN
    << << "c", "a", "s", "e", ".", "f", "i", "l", "e", "=" >> \o case_file >>
    \o OptionToken(TrialCountKey, trials)
    \o OptionToken(TrialNJobsKey, trial_jobs)
    \o OptionToken(TrialIdKey, trial_id)
    \o OptionToken(<< "l", "a", "u", "n", "c", "h", "e", "r", ".", "n", "_", "j", "o", "b", "s" >>,
                   run_jobs)
    \o overrides_arg

\* what Hydra makes of cfg.trial.<key>: the number of the last token written
\* for the key, the value of the configuration file without one
RECURSIVE hydra_value(_, _, _)
hydra_value(task, key, default) ==
    IF task = << >> THEN default
    ELSE LET item == task[Len(task)]
             eq == IndexOf(item, "=")
         IN  IF eq # 0 /\ SubSeq(item, 1, eq - 1) = key
                /\ isdigit(SubSeq(item, eq + 1, Len(item)))
                /\ IsDecimal(SubSeq(item, eq + 1, Len(item)))
             THEN DecimalValue(0, SubSeq(item, eq + 1, Len(item)))
             ELSE hydra_value(SubSeq(task, 1, Len(task) - 1), key, default)

\* the case files of the model: three rate selection methods, and a case
\* without a rates_selection table
CaseFiles ==
    { [rates_selection |-> [method |-> "stochastic"]],
      [rates_selection |-> [method |-> "histocastic"]],
      [rates_selection |-> [method |-> "fixed"]],
      [basic_info |-> [status |-> "single"]] }

\* --trials, --trial-id, --trial-jobs: not given, or a number
TrialsOptions == {NoneV} \cup {IntV(k) : k \in 1..MaxTrials}
TrialIdOptions == {NoneV, IntV(0), IntV(2)}
TrialJobsOptions == {NoneV, IntV(2)}

\* the pass-through overrides (ctx.args): none, lists the tree is built from,
\* a digit segment on a scalar (RuntimeError) and a key segment on a list
\* (TypeError)
PassThroughChoices ==
    { << >>,
      << << "x", ".", "2", "=", "7" >> >>,
      << << "a", ".", "b", "=", "1" >>, << "a", ".", "b", ".", "0", "=", "2" >> >>,
      << << "x", ".", "0", "=", "1" >>, << "x", ".", "k", "=", "2" >> >> }

\* the command is entered; cfg.trial holds the values of the configuration
\* file (a plain `roost run Case.toml` is one trial in one process)
InitInvocation ==
    /\ entry = "main" /\ pc = "CMD_RUN"
    /\ case_data \in CaseFiles
    /\ cfg = [count |-> 1, n_jobs |-> 1]
    /\ overrides = EmptyMap /\ parsed = EmptyMap
    /\ trial_args = << >> /\ n_trials = 0 /\ exec_log = << >>
    /\ pool = NoneV /\ workers = << >> /\ results = << >> /\ summary = NoneV
    /\ dirs = {}
    /\ CURRENT_LOG_LEVEL = NoneV /\ tw_CURRENT_LOG_LEVEL = NoneV /\ sink_level = NoneV
    /\ n_calls = [run_trial |-> 0, configure |-> 0]
    /\ LibIdle

\* cmd_run lines 268-304 with --run-jobs not given: the validation, then the
\* subprocess is started on the command's tokens, or the command is refused
CmdRun(trials, trial_id, trial_jobs, hydra_overrides) ==
    /\ entry = "main" /\ pc = "CMD_RUN"
    /\ LET rate_method == get_rate_selection_method(case_data)
           refused == validate_rate_method_for_trials(rate_method, trials, trial_id)
       IN  IF refused # NoneV
           THEN /\ pc' = "REFUSED"
                /\ tokens' = tokens
           ELSE /\ pc' = "HYDRA"
                /\ tokens' = << build_hydra_command(hydra_overrides, trials, trial_jobs,
                                                    NoneV, trial_id) >>
    /\ UNCHANGED << entry, cfg, overrides, parsed, trial_args, n_trials, pool, workers, results,
                    summary, dirs, exec_log, CURRENT_LOG_LEVEL, tw_CURRENT_LOG_LEVEL,
                    sink_level, case_data, n_calls, bld, build_log, streams, sample_log >>

\* main going on to the planning whatever the build of line 127 did
main_after_parse_caught(f) == "PLANNING"

\* main after line 127: an exception of hydra_overrides_to_dict is not caught,
\* it ends main before the run directory is asked for
main_after_parse(f) == IF f.raised # NoneV THEN "ABORTED" ELSE "PLANNING"

\* main lines 89-154: Hydra has applied the tokens to cfg; line 127 builds
\* the override tree from the task overrides
ParseOverrides ==
    /\ entry = "main" /\ pc = "HYDRA"
    /\ LET f == hydra_overrides_to_dict(tokens[1], bld) IN
          /\ bld' = f
          /\ tokens' = [tokens EXCEPT ![1] = f.overrides]
          /\ build_log' = Append(build_log,
                                 [list |-> 1, tokens |-> tokens[1], after |-> f.overrides,
                                  outcome |-> Outcome(f), coerced |-> f.coerced,
                                  stores |-> f.stores, trees |-> f.trees])
          /\ overrides' = IF f.raised # NoneV THEN overrides ELSE f.result
          /\ parsed' = IF f.raised # NoneV THEN parsed ELSE f.result
          /\ pc' = main_after_parse(f)
    /\ cfg' = [count  |-> hydra_value(tokens[1], TrialCountKey, cfg.count),
               n_jobs |-> hydra_value(tokens[1], TrialNJobsKey, cfg.n_jobs)]
    /\ UNCHANGED << entry, trial_args, n_trials, pool, workers, results, summary, dirs,
                    exec_log, CURRENT_LOG_LEVEL, tw_CURRENT_LOG_LEVEL, sink_level,
                    case_data, n_calls, streams, sample_log >>

\* the steps of main from line 160 on: the scheduler and its executors
SchedulerStep ==
    \/ Plan
    \/ RunInline
    \/ \E status \in Statuses : InlineSolverReturn(status)
    \/ InlineSolverRaise
    \/ PoolStart
    \/ \E w \in 1..MaxJobs : WorkerTake(w)
    \/ \E w \in 1..MaxJobs, status \in Statuses : WorkerSolverReturn(w, status)
    \/ \E w \in 1..MaxJobs : WorkerSolverRaise(w)
    \/ PoolReturn
    \/ PoolRaise
    \/ Summarize

NextInvocation ==
    \/ \E trials \in TrialsOptions, trial_id \in TrialIdOptions,
          trial_jobs \in TrialJobsOptions, hydra_overrides \in PassThroughChoices :
          CmdRun(trials, trial_id, trial_jobs, hydra_overrides)
    \/ ParseOverrides
    \/ SchedulerStep

SpecInvocation == InitInvocation /\ [][NextInvocation]_vars

\* once main is planning, its process and the pool's workers are scheduled
\* and every call of the solver ends (it returns or raises): a step of the
\* scheduler that can be taken is taken
SpecInvocationLive == SpecInvocation /\ WF_vars(SchedulerStep)

-----
(* Properties                                                              *)

\* C1: in a multi-trial run (no trial id, trial count n > 1) the seed planned
\* for trial k, the seed of every result a worker returned for trial k and
\* the seed of every collected result for trial k are the word generated from
\* child k of the n children of the master seed: a function of (master seed,
\* n, k), whatever the pool size and the order in which trials complete.
C1_SeedsFixedByPlanning ==
    LET id_token == dict_get(dict_get(parsed, "trial", EmptyMap), "id", NoneV)
        count_token == dict_get(dict_get(parsed, "trial", EmptyMap), "count", NoneV)
        n == IF count_token = NoneV THEN cfg.count ELSE count_token.i
        expected(k) == IntV(generate_state(
                          [entropy |-> master_seed, spawn_key |-> << k >>,
                           n_children_spawned |-> 0]))
    IN  (entry = "main" /\ pc # "PLANNING" /\ id_token = NoneV /\ n > 1) =>
            /\ Len(trial_args) = n
            /\ \A j \in 1..n :
                  /\ trial_args[j].trial_id = j - 1
                  /\ trial_args[j].trial_seed = expected(j - 1)
                  /\ exec_log[j].result # NoneV =>
                        /\ exec_log[j].result.trial_id = j - 1
                        /\ exec_log[j].result.seed = expected(j - 1)
            /\ \A j \in 1..Len(results) : results[j].seed = expected(results[j].trial_id)

\* C1 witness: two workers, and trial 2 has returned its result while trial 1
\* has none yet (completion order differs from index order)
C1_Witness ==
    /\ entry = "main" /\ pc = "POOL" /\ cfg.n_jobs = 2 /\ Len(trial_args) >= 3
    /\ exec_log[3].result # NoneV
    /\ exec_log[2].result = NoneV

\* C2: a numeric trial.id = k >= 0 without a trial.count token plans exactly
\* one trial with id k and a non-null seed, that seed is the seed a
\* multi-trial run of any count n > k gives index k, the trial is executed at
\* most once, every result carries id k and that seed, and a finished run has
\* exactly one result.
C2_ExplicitIdSeedMatchesFullRun ==
    LET trial == dict_get(parsed, "trial", EmptyMap)
        id_token == dict_get(trial, "id", NoneV)
        k == int_of(id_token)
    IN  (entry = "main" /\ pc # "PLANNING" /\ id_token.t \in {"int", "float"}
         /\ "count" \notin DOMAIN trial.m) =>
            /\ n_trials = 1 /\ Len(trial_args) = 1 /\ Len(exec_log) = 1
            /\ trial_args[1].trial_id = k
            /\ trial_args[1].trial_seed # NoneV
            /\ \A n \in (k + 1)..(MaxCount + MaxTrialId + 1) :
                  trial_args[1].trial_seed = PlanMulti(n)[k + 1].trial_seed
            /\ exec_log[1].solver_calls <= 1
            /\ \A j \in 1..Len(results) :
                  /\ results[j].trial_id = k
                  /\ results[j].seed = trial_args[1].trial_seed
            /\ pc \in {"SUMMARIZING", "DONE"} => Len(results) = 1

\* C2 witness: a finished run for trial.id = 3 without a count token
C2_Witness ==
    /\ entry = "main" /\ pc = "DONE"
    /\ "trial" \in DOMAIN parsed.m
    /\ DOMAIN parsed.m["trial"].m = {"id"}
    /\ parsed.m["trial"].m["id"] = IntV(3)
    /\ Len(results) = 1 /\ results[1].trial_id = 3

\* C3: with trial count 1 and no trial id, main plans exactly one trial with a
\* null seed, its result has a null seed, and run_single_case is handed the
\* override tree as parsed (no rates.rate_seed, no basic_info.life_expectancy
\* added); run_trial called with both seeds null hands the solver the base
\* overrides it was given.
C3_UnseededSingleRun ==
    /\ LET trial == dict_get(parsed, "trial", EmptyMap)
           id_token == dict_get(trial, "id", NoneV)
           count_token == dict_get(trial, "count", NoneV)
           n == IF count_token = NoneV THEN cfg.count ELSE count_token.i
       IN  (entry = "main" /\ pc # "PLANNING"
            /\ id_token.t \notin {"int", "float"} /\ n = 1) =>
               /\ n_trials = 1 /\ Len(trial_args) = 1 /\ Len(exec_log) = 1
               /\ trial_args[1].trial_seed = NoneV
               /\ exec_log[1].solver_calls <= 1
               /\ exec_log[1].call # NoneV => exec_log[1].call.overrides = parsed
               /\ \A j \in 1..Len(results) : results[j].seed = NoneV
               /\ pc \in {"SUMMARIZING", "DONE"} => Len(results) = 1
    /\ (entry = "run_trial" /\ Len(exec_log) = 1 /\ exec_log[1].call # NoneV
        /\ trial_args[1].rates_seed = NoneV /\ trial_args[1].longevity_seed = NoneV) =>
           exec_log[1].call.overrides = overrides

\* C3 witness: a finished unseeded run of main whose tree holds a rates entry
C3_Witness ==
    /\ entry = "main" /\ pc = "DONE"
    /\ "rates" \in DOMAIN parsed.m
    /\ Len(results) = 1 /\ results[1].seed = NoneV /\ results[1].trial_id = 0
    /\ exec_log[1].call # NoneV

\* C4: planning picks one mode by priority.  A numeric trial.id: one trial
\* with that id and a seed, whatever the count.  Otherwise count 1: one trial,
\* id 0, no seed.  Otherwise: trials 0..count-1, each with a seed.
C4_ThreeModesByPriority ==
    LET trial == dict_get(parsed, "trial", EmptyMap)
        id_token == dict_get(trial, "id", NoneV)
        count_token == dict_get(trial, "count", NoneV)
        n == IF count_token = NoneV THEN cfg.count ELSE count_token.i
        requested == id_token.t \in {"int", "float"}
        explicit == /\ n_trials = 1 /\ Len(trial_args) = 1
                    /\ trial_args[1].trial_seed # NoneV
        unseeded == /\ n_trials = 1 /\ Len(trial_args) = 1
                    /\ trial_args[1].trial_seed = NoneV
        multi ==    /\ n_trials = n /\ Len(trial_args) = n /\ n # 1
                    /\ \A j \in 1..n : /\ trial_args[j].trial_id = j - 1
                                       /\ trial_args[j].trial_seed # NoneV
    IN  (entry = "main" /\ pc # "PLANNING") =>
            /\ requested => (explicit /\ trial_args[1].trial_id = int_of(id_token))
            /\ (~requested /\ n = 1) => (unseeded /\ trial_args[1].trial_id = 0)
            /\ (~requested /\ n # 1) => multi
            /\ (IF explicit THEN 1 ELSE 0) + (IF unseeded THEN 1 ELSE 0)
                  + (IF multi THEN 1 ELSE 0) = 1
            /\ Len(exec_log) = Len(trial_args)

\* C4 witness: a trial id together with a trial count above 1 has been planned
C4_Witness ==
    /\ entry = "main" /\ pc = "RUNNING"
    /\ "trial" \in DOMAIN parsed.m
    /\ DOMAIN parsed.m["trial"].m = {"id", "count"}
    /\ parsed.m["trial"].m["id"] = IntV(2)
    /\ parsed.m["trial"].m["count"] = IntV(4)
    /\ Len(trial_args) = 1

\* C5: in a multi-trial run (no trial id, count n > 1) the planned trials are
\* the indices 0..n-1, each with a non-null seed; and once starmap is over,
\* every one of them has been executed exactly once and exactly one result per
\* trial has been collected, in no case fewer.
C5_EveryTrialOnceOneResultEach ==
    LET id_token == dict_get(dict_get(parsed, "trial", EmptyMap), "id", NoneV)
        count_token == dict_get(dict_get(parsed, "trial", EmptyMap), "count", NoneV)
        n == IF count_token = NoneV THEN cfg.count ELSE count_token.i
    IN  (entry = "main" /\ pc # "PLANNING" /\ id_token = NoneV /\ n > 1) =>
            /\ Len(trial_args) = n
            /\ \A j \in 1..n : /\ trial_args[j].trial_id = j - 1
                               /\ trial_args[j].trial_seed # NoneV
                               /\ exec_log[j].solver_calls <= 1
            /\ pc \in {"SUMMARIZING", "DONE", "ABORTED"} =>
                  /\ \A j \in 1..n : exec_log[j].solver_calls = 1
                  /\ Len(results) = n
                  /\ \A j \in 1..n : results[j].trial_id = j - 1

\* C6: in the final summary, with F the trials for which run_single_case
\* reported a status other than "solved" and n the number of executed trials,
\* solved = n - |F|, failed = |F|, the listed failed ids are exactly F, each
\* once, and every executed trial is in exactly one of the two groups.
C6_SummaryCountsSolvedAndFailed ==
    (entry = "main" /\ pc = "DONE") =>
        LET executed == { j \in 1..Len(exec_log) : exec_log[j].solver_calls > 0 }
            F == { exec_log[j].trial_id : j \in { e \in executed :
                                                    exec_log[e].reported # "solved" } }
            listed == { summary.failed_ids[j] : j \in 1..Len(summary.failed_ids) }
        IN  /\ executed = 1..Len(trial_args)
            /\ summary.solved = Cardinality(executed) - Cardinality(F)
            /\ summary.failed = Cardinality(F)
            /\ listed = F
            /\ Len(summary.failed_ids) = Cardinality(F)
            /\ summary.solved + summary.failed = Cardinality(executed)

\* C6 witness: five trials, the solver reported a status other than "solved"
\* for trial 2 only, and the summary is out
C6_Witness ==
    /\ entry = "main" /\ pc = "DONE"
    /\ Len(trial_args) = 5
    /\ summary.solved = 4 /\ summary.failed = 1 /\ summary.failed_ids = << 2 >>

\* C7: when run_single_case raises for a trial of a multi-trial run, the run
\* does not abort: once the run is over it has reached the summary, every
\* trial was executed, the raising trial has a result with a status other
\* than "solved" and is listed among the failed ids.
C7_RaisingTrialIsRecordedAndRunGoesOn ==
    LET id_token == dict_get(dict_get(parsed, "trial", EmptyMap), "id", NoneV)
        count_token == dict_get(dict_get(parsed, "trial", EmptyMap), "count", NoneV)
        n == IF count_token = NoneV THEN cfg.count ELSE count_token.i
        raised == { j \in 1..Len(exec_log) : exec_log[j].reported = "raised" }
    IN  (entry = "main" /\ pc # "PLANNING" /\ id_token = NoneV /\ n > 1
         /\ raised # {}) =>
            /\ pc # "ABORTED"
            /\ pc = "DONE" =>
                  /\ \A j \in 1..n : exec_log[j].solver_calls = 1
                  /\ \A j \in raised :
                        /\ \E i \in 1..Len(results) :
                              /\ results[i].trial_id = exec_log[j].trial_id
                              /\ results[i].status # "solved"
                        /\ \E i \in 1..Len(summary.failed_ids) :
                              summary.failed_ids[i] = exec_log[j].trial_id

TrialIdSample == (0..(MaxCount + MaxTrialId)) \cup TWTrialIds \cup {999, 1000, 9999, 10000}

\* directory names over TrialIdSample: at least four characters, and
\* different ids give different directories
DirectoriesDistinct ==
    /\ \A a, b \in TrialIdSample :
          /\ Len(fmt04d(a)) >= 4
          /\ a # b => trial_dir_of(a) # trial_dir_of(b)
    /\ fmt04d(7) = "0007" /\ fmt04d(12345) = "12345"

\* C9: the directory of a trial is run_dir/trials/<id padded with zeros to at
\* least four digits>; it exists when run_single_case is entered; the output
\* path lies directly in it; and two different trial ids never give the same
\* directory, so no output path lies in another trial's directory.
C9_OneDirectoryPerTrial ==
    /\ \A j \in 1..Len(exec_log) :
          LET e == exec_log[j] IN
          e.call # NoneV =>
              /\ e.call.dir_exists
              /\ trial_dir_of(e.trial_id) \in dirs
              /\ Parent(e.call.output_file) = trial_dir_of(e.trial_id)
              /\ trial_dir_of(e.trial_id) = << "run_dir", "trials", fmt04d(e.trial_id) >>
              /\ \A i \in 1..Len(exec_log) :
                    exec_log[i].trial_id # e.trial_id =>
                        Parent(e.call.output_file) # trial_dir_of(exec_log[i].trial_id)
    /\ \A j \in 1..Len(trial_args) : trial_args[j].trial_id \in TrialIdSample
    /\ DirectoriesDistinct

\* C9 witness: two trials of one pool run are inside run_single_case at once
C9_Witness ==
    /\ entry = "main" /\ pc = "POOL" /\ Len(exec_log) >= 2
    /\ exec_log[1].call # NoneV /\ exec_log[1].reported = "none"
    /\ exec_log[2].call # NoneV /\ exec_log[2].reported = "none"

\* C10: executing trials never changes the base override tree: the tree of
\* the parent process and the copy a worker holds for its batch equal the
\* tree built from the tokens, nested maps included.
C10_BaseTreeUnchanged ==
    /\ overrides = parsed
    /\ \A w \in DOMAIN workers : workers[w].tree \in {NoneV, parsed}

\* C13: whenever a build applies a list index to a node that exists as a map
\* or as a scalar, or a map key to a node that exists as a list, the call
\* raises the structural conflict error (RuntimeError "Invalid list index",
\* the same kind in both directions) and returns no tree.
C13_StructuralConflictRaises ==
    \A c \in 1..Len(build_log) :
        LET o == build_log[c].outcome IN
        (/\ o.t = "raise"
         /\ \/ (o.segment = "index" /\ o.node \in {"map", "int", "float", "str"})
            \/ (o.segment = "key" /\ o.node = "list"))
            => o.kind = "RuntimeError"

\* C14: a store at index i of a list of length L gives a list of length i+1
\* when i >= L (of length L otherwise); the positions created below i hold
\* None, position i holds the stored value, and every other position keeps
\* what it held; the one token x.2=7 gives the list [None, None, 7] at x.
C14_ListStoreExtends ==
    \A c \in 1..Len(build_log) :
        /\ \A k \in 1..Len(build_log[c].stores) :
              LET st == build_log[c].stores[k]
                  L == Len(st.before)
                  i == st.idx
              IN  /\ Len(st.after) = (IF i >= L THEN i + 1 ELSE L)
                  /\ st.after[i + 1] # NoneV
                  /\ \A j \in 1..Len(st.after) :
                        j # i + 1 => st.after[j] = (IF j <= L THEN st.before[j] ELSE NoneV)
        /\ build_log[c].tokens = << << "x", ".", "2", "=", "7" >> >> =>
              build_log[c].outcome =
                  [t |-> "ok",
                   tree |-> MapV([x \in {"x"} |-> ListV(<< NoneV, NoneV, IntV(7) >>)])]

\* C14 witness: a build stored at an index beyond the end of a list that
\* already held a value
C14_Witness ==
    \E c \in 1..Len(build_log) : \E k \in 1..Len(build_log[c].stores) :
        LET st == build_log[c].stores[k] IN
        /\ Len(st.before) = 1 /\ st.before[1] # NoneV
        /\ st.idx = 2 /\ Len(st.after) = 3

\* the coercion C15 states: an optional sign and decimal digits give an
\* integer, any other float literal a float, everything else the string
C15_Stated(raw) ==
    IF StripSign(raw) # << >> /\ IsDecimal(StripSign(raw))
    THEN IntV(DecimalValue(0, StripSign(raw)) * (IF Head(raw) = "-" THEN -1 ELSE 1))
    ELSE IF float_ok(raw) THEN FloatV(float_tenths(raw))
    ELSE StrV(Join(raw))

\* C15: every value string is coerced in this order: text that parses fully
\* as an integer is stored as an integer, else text that parses fully as a
\* float is stored as a float, else the string is stored as it is.
C15_CoercionOrder ==
    \A c \in 1..Len(build_log) : \A k \in 1..Len(build_log[c].coerced) :
        build_log[c].coerced[k].value = C15_Stated(build_log[c].coerced[k].raw)

\* the tokens C16 says are used: those with "=" and a key of two or more
\* segments
C16_Used(l) ==
    SelectSeq(l, LAMBDA item :
        /\ IndexOf(item, "=") # 0
        /\ Len(split(SubSeq(item, 1, IndexOf(item, "=") - 1), ".")) >= 2)

\* C16: tokens without "=" and tokens whose key has fewer than two segments
\* are ignored without raising: a build gives what the build of the list
\* without those tokens gives.
C16_IgnoredTokensChangeNothing ==
    \A c \in 1..Len(build_log) :
        build_log[c].outcome
            = Outcome(hydra_overrides_to_dict(C16_Used(build_log[c].tokens), NoneV))

\* C17: calls on equal token lists end the same way (the same tree, or the
\* same exception) whatever was called in between, and a call leaves the
\* token list it was given as it was.
C17_BuildIsPure ==
    /\ \A c, d \in 1..Len(build_log) :
          build_log[c].tokens = build_log[d].tokens
              => build_log[c].outcome = build_log[d].outcome
    /\ \A c \in 1..Len(build_log) :
          /\ build_log[c].after = build_log[c].tokens
          /\ tokens[build_log[c].list] = build_log[c].tokens

\* C17 witness: a list was built into a tree with a list node, then another
\* list was built, then the first list again
C17_Witness ==
    /\ Len(build_log) = 3
    /\ build_log[1].list = 1 /\ build_log[2].list = 2 /\ build_log[3].list = 1
    /\ build_log[1].tokens # build_log[2].tokens
    /\ build_log[1].outcome.t = "ok"
    /\ build_log[1].stores # << >>
    /\ build_log[2].outcome.t = "ok"

\* the entry `key` of the merged tree is that of the base tree (an empty map
\* when the base has none) with the entries of `added` put in
C11_EntryPlus(merged, base, key, added) ==
    /\ key \in DOMAIN merged.m
    /\ LET old == dict_get(base, key, EmptyMap) IN
          /\ DOMAIN merged.m[key].m = DOMAIN old.m \cup DOMAIN added
          /\ \A sub \in DOMAIN merged.m[key].m :
                merged.m[key].m[sub] = IF sub \in DOMAIN added THEN added[sub] ELSE old.m[sub]

\* the merged tree has the entry `key` as the base tree has it, or has none
\* as the base tree has none
C11_EntrySame(merged, base, key) ==
    /\ key \in DOMAIN merged.m <=> key \in DOMAIN base.m
    /\ key \in DOMAIN base.m => merged.m[key] = base.m[key]

\* the Generator seeded with `seed` after n draws
RECURSIVE C11_StreamAfter(_, _)
C11_StreamAfter(seed, n) ==
    IF n = 0 THEN << default_rng(seed) >> ELSE uniform(C11_StreamAfter(seed, n - 1), 1).heap

\* the whole years of the sample for person i of the base case, drawn as the
\* i-th value of the stream seeded with `seed`
C11_PersonAge(basic_info, seed, i) ==
    LET n == Len(basic_info.life_expectancy) IN
    sample_individual_lifetime(
        C11_StreamAfter(seed, i - 1), 1, basic_info.life_expectancy[i],
        IF "health" \in DOMAIN basic_info THEN basic_info.health[i] ELSE "average",
        IF "sex" \in DOMAIN basic_info THEN basic_info.sex[i] ELSE "female",
        IF "smoker" \in DOMAIN basic_info THEN basic_info.smoker[i] ELSE FALSE,
        IF "married" \in DOMAIN basic_info THEN basic_info.married ELSE TRUE).value \div 100

\* C11: the overrides run_trial hands the solver are the base overrides it was
\* given plus rates.rate_seed = rates_seed exactly when rates_seed is not
\* null, and plus, exactly when longevity_seed is not null,
\* basic_info.longevity_seed = longevity_seed and basic_info.life_expectancy =
\* one whole sampled age per person of the base case, in the persons' order
\* (person i gets the i-th draw of the stream seeded with longevity_seed, with
\* that person's attributes).  Every other entry is the base's.
C11_MergedOverrides ==
    (entry = "run_trial" /\ Len(exec_log) = 1 /\ exec_log[1].call # NoneV) =>
        LET a == trial_args[1]
            merged == exec_log[1].call.overrides
            base == a.base_overrides
            persons == 1..Len(case_data.life_expectancy)
        IN  /\ \A key \in (DOMAIN merged.m \cup DOMAIN base.m) \ {"rates", "basic_info"} :
                  C11_EntrySame(merged, base, key)
            /\ IF a.rates_seed # NoneV
               THEN C11_EntryPlus(merged, base, "rates", [sub \in {"rate_seed"} |-> a.rates_seed])
               ELSE C11_EntrySame(merged, base, "rates")
            /\ IF a.longevity_seed # NoneV
               THEN C11_EntryPlus(merged, base, "basic_info",
                       [sub \in {"life_expectancy", "longevity_seed"} |->
                           IF sub = "longevity_seed" THEN a.longevity_seed
                           ELSE ListV([i \in persons |->
                                        IntV(C11_PersonAge(case_data, a.longevity_seed.i, i))])])
               ELSE C11_EntrySame(merged, base, "basic_info")

\* C11 witness: run_trial was called with both seeds on a base tree that holds
\* a rates and a basic_info entry, for a couple whose attributes differ, and
\* the solver was handed two different ages
C11_Witness ==
    /\ entry = "run_trial" /\ Len(exec_log) = 1 /\ exec_log[1].call # NoneV
    /\ trial_args[1].rates_seed # NoneV /\ trial_args[1].longevity_seed # NoneV
    /\ {"rates", "basic_info"} \subseteq DOMAIN trial_args[1].base_overrides.m
    /\ "health" \in DOMAIN case_data /\ Len(case_data.life_expectancy) = 2
    /\ LET l == exec_log[1].call.overrides.m["basic_info"].m["life_expectancy"].l
       IN  Len(l) = 2 /\ l[1] # l[2]

\* the calls of sample_individual_lifetime that returned
C18_Returned ==
    { c \in 1..Len(sample_log) :
        sample_log[c].op = "sample_individual_lifetime" /\ sample_log[c].outcome.t = "ok" }

\* C18: an age at death that sample_individual_lifetime returns is at least
\* the current_age it was called with (ages in hundredths of a year).
C18_LifetimeAtLeastCurrentAge ==
    \A c \in C18_Returned :
        sample_log[c].outcome.value >= sample_log[c].args.current_age * 100

\* C18 witness: a call for a person below the maximum age whose draw was the
\* lowest a stream gives returned the current age itself, and a second call
\* returned a later age
C18_Witness ==
    /\ Len(sample_log) = 2 /\ C18_Returned = {1, 2}
    /\ sample_log[1].args.current_age < max_age
    /\ sample_log[1].outcome.value = sample_log[1].args.current_age * 100
    /\ sample_log[2].outcome.value > sample_log[2].args.current_age * 100

\* the persons a call was made for
C19_Persons(c) ==
    IF sample_log[c].op = "sample_joint_last_survivor"
    THEN { sample_log[c].args[1], sample_log[c].args[2] }
    ELSE { sample_log[c].args }

\* the exception names the value and the allowed values of the tier or of the sex
C19_Names(outcome, value, allowed) ==
    /\ outcome.value = value
    /\ { outcome.allowed[k] : k \in 1..Len(outcome.allowed) } = allowed

\* C19: a call of adjust_parameters, sample_individual_lifetime or
\* sample_joint_last_survivor for a person whose health tier is none of
\* excellent, average, poor or whose sex is none of female, male returns no
\* value: it raises a ValueError that names an invalid value of the call and
\* the allowed values for it.
C19_InvalidTierOrSexRaises ==
    \A c \in 1..Len(sample_log) :
        LET bad_health == { a.health : a \in C19_Persons(c) } \ {"excellent", "average", "poor"}
            bad_sex == { a.sex : a \in C19_Persons(c) } \ {"female", "male"}
            outcome == sample_log[c].outcome
        IN  (bad_health \cup bad_sex # {}) =>
               /\ outcome.t = "raise"
               /\ outcome.kind = "ValueError"
               /\ \/ \E h \in bad_health : C19_Names(outcome, h, {"excellent", "average", "poor"})
                  \/ \E x \in bad_sex : C19_Names(outcome, x, {"female", "male"})

\* C19 witness: sample_individual_lifetime raised for an unknown sex, and
\* sample_joint_last_survivor raised for the same person
C19_Witness ==
    /\ Len(sample_log) = 2
    /\ sample_log[1].op = "sample_individual_lifetime"
    /\ sample_log[2].op = "sample_joint_last_survivor"
    /\ sample_log[1].args.sex = "other"
    /\ sample_log[1].outcome.t = "raise" /\ sample_log[2].outcome.t = "raise"

\* C20: two calls of sample_individual_lifetime whose Generators had the same
\* seed and the same number of earlier draws and whose arguments were the same
\* ended the same way, whatever Generator object each was given and whatever
\* was called before.
C20_SameStreamStateSameValue ==
    \A c, d \in 1..Len(sample_log) :
        (/\ sample_log[c].op = "sample_individual_lifetime"
         /\ sample_log[d].op = "sample_individual_lifetime"
         /\ sample_log[c].seed = sample_log[d].seed
         /\ sample_log[c].draws = sample_log[d].draws
         /\ sample_log[c].args = sample_log[d].args)
            => sample_log[c].outcome = sample_log[d].outcome

\* C20 witness: two Generator objects of the same seed, neither drawn from
\* before, gave two calls the same age, a later one than the current age
C20_Witness ==
    /\ Len(sample_log) = 2 /\ C18_Returned = {1, 2}
    /\ sample_log[1].rng # sample_log[2].rng
    /\ sample_log[1].seed = sample_log[2].seed
    /\ sample_log[1].draws = 0 /\ sample_log[2].draws = 0
    /\ sample_log[1].outcome.value > sample_log[1].args.current_age * 100
    /\ sample_log[1].outcome.value = sample_log[2].outcome.value

\* C12: every planned trial with a seed gets two seeds, from the two children
\* of its own sub-stream (the sub-stream of position trial_id among the
\* master's children): the seed stored as rates.rate_seed is the first
\* child's, and a longevity seed, the second child's, is handed on with it.
C12_TwoSeedsFromChildStreams ==
    (entry = "main" /\ pc # "PLANNING") =>
        \A j \in 1..Len(trial_args) :
            trial_args[j].trial_seed # NoneV =>
                LET trial_id == trial_args[j].trial_id
                    trial_seq == spawn(SeedSequence(master_seed), trial_id + 1)[trial_id + 1]
                    children == spawn(trial_seq, 2)
                IN  /\ trial_args[j].trial_seed = IntV(generate_state(children[1]))
                    /\ "longevity_seed" \in DOMAIN trial_args[j]
                    /\ trial_args[j].longevity_seed = IntV(generate_state(children[2]))

\* the calls of `op` that returned
ReturnedCalls(op) ==
    { c \in 1..Len(sample_log) : sample_log[c].op = op /\ sample_log[c].outcome.t = "ok" }

\* A and B of adjust_parameters for the arguments `a` with another health
\* tier and sex
C21_AB(a, health, sex) ==
    LET p == adjust_parameters(health, a.current_age, sex, a.smoker, a.married)
    IN  << p.A, p.B >>

\* both components smaller
C21_Below(x, y) == x[1] < y[1] /\ x[2] < y[2]

\* C21: for the age, smoker flag and married flag of every call of
\* adjust_parameters that returned, A and B grow strictly from excellent to
\* average to poor health under either sex, and from female to male under
\* every health tier; the call's own A and B are among the compared ones.
C21_HealthAndSexOrderAB ==
    \A c \in ReturnedCalls("adjust_parameters") :
        LET a == sample_log[c].args
            own == << sample_log[c].outcome.value[1], sample_log[c].outcome.value[2] >>
        IN  /\ own = C21_AB(a, a.health, a.sex)
            /\ \A sex \in {"female", "male"} :
                  /\ C21_Below(C21_AB(a, "excellent", sex), C21_AB(a, "average", sex))
                  /\ C21_Below(C21_AB(a, "average", sex), C21_AB(a, "poor", sex))
            /\ \A health \in {"excellent", "average", "poor"} :
                  C21_Below(C21_AB(a, health, "female"), C21_AB(a, health, "male"))
            /\ a.health = "excellent" => C21_Below(own, C21_AB(a, "average", a.sex))
            /\ a.health = "poor" => C21_Below(C21_AB(a, "average", a.sex), own)
            /\ a.sex = "female" => C21_Below(own, C21_AB(a, a.health, "male"))

\* C21 witness: adjust_parameters returned for a married smoker of excellent
\* health aged 40
C21_Witness ==
    \E c \in ReturnedCalls("adjust_parameters") :
        /\ sample_log[c].args.health = "excellent" /\ sample_log[c].args.sex = "female"
        /\ sample_log[c].args.smoker /\ sample_log[c].args.married
        /\ sample_log[c].args.current_age = 40

\* the sample of sample_individual_lifetime for the person `a` as the draw
\* number n + 1 of the stream seeded with `seed`
C24_Individual(a, married, seed, n) ==
    sample_individual_lifetime(C11_StreamAfter(seed, n), 1, a.current_age, a.health, a.sex,
                               a.smoker, married).value

\* C24: a returning call of sample_joint_last_survivor gives (last, life1,
\* life2): life1 is the individual sample of person 1 from the next draw of
\* the stream, life2 that of person 2 from the draw after it, both with the
\* one married flag; last is the larger of the two; life1 >= age1 and
\* life2 >= age2.
C24_JointLastSurvivor ==
    \A c \in ReturnedCalls("sample_joint_last_survivor") :
        LET e == sample_log[c]
            last == e.outcome.value[1]
            life1 == e.outcome.value[2]
            life2 == e.outcome.value[3]
        IN  /\ Len(e.outcome.value) = 3
            /\ life1 = C24_Individual(e.args[1], e.args[1].married, e.seed, e.draws)
            /\ life2 = C24_Individual(e.args[2], e.args[1].married, e.seed, e.draws + 1)
            /\ last >= life1 /\ last >= life2 /\ last \in {life1, life2}
            /\ life1 >= e.args[1].current_age * 100
            /\ life2 >= e.args[2].current_age * 100

\* C24 witness: a joint call on a stream drawn from before returned two
\* different lifetimes, the second person's the longer one
C24_Witness ==
    \E c \in ReturnedCalls("sample_joint_last_survivor") :
        /\ sample_log[c].draws > 0
        /\ sample_log[c].outcome.value[2] < sample_log[c].outcome.value[3]
        /\ sample_log[c].outcome.value[1] = sample_log[c].outcome.value[3]

\* the number of draws of every Generator before call c
C29_DrawsBefore(c) ==
    IF c = 1 THEN [r \in 1..Len(streams) |-> 0] ELSE sample_log[c - 1].draws_after

\* C29: a call of sample_individual_lifetime that returns has advanced the
\* Generator it was given by one draw, a call that raises for an unknown
\* health tier or sex has advanced it by none, and neither touches another
\* Generator.
C29_OneDrawPerSample ==
    \A c \in 1..Len(sample_log) :
        sample_log[c].op = "sample_individual_lifetime" =>
            LET e == sample_log[c]
                drawn == IF e.outcome.t = "ok" THEN 1 ELSE 0
            IN  /\ e.draws = C29_DrawsBefore(c)[e.rng]
                /\ \A r \in 1..Len(streams) :
                      e.draws_after[r] = C29_DrawsBefore(c)[r] + (IF r = e.rng THEN drawn ELSE 0)

\* C29 witness: two returning calls on the same Generator, the second one
\* made after one draw
C29_Witness ==
    /\ Len(sample_log) = 2
    /\ ReturnedCalls("sample_individual_lifetime") = {1, 2}
    /\ sample_log[1].rng = sample_log[2].rng
    /\ sample_log[2].draws = 1 /\ sample_log[2].draws_after[sample_log[2].rng] = 2

\* C22: the multiplier (in hundredths) is 2.3 below age 40, on the line from
\* 2.2 at age 40 to 1.3 at age 80 for 40 <= age <= 80, 1.3 for 80 < age <= 90
\* and 1.1 above age 90.
C22_SmokerMultiplierShape ==
    \A c \in 1..Len(sample_log) :
        sample_log[c].op = "age_dependent_smoker_multiplier" =>
            LET age == sample_log[c].args.age
                value == sample_log[c].outcome.value
            IN  /\ age < 40 => value = 230
                /\ (40 <= age /\ age <= 80) => value * 40 = 220 * 40 - (220 - 130) * (age - 40)
                /\ (80 < age /\ age <= 90) => value = 130
                /\ age > 90 => value = 110

\* C23: of two ages asked for, the later one never gets the larger multiplier.
C23_SmokerMultiplierNeverIncreases ==
    \A c, d \in 1..Len(sample_log) :
        (/\ sample_log[c].op = "age_dependent_smoker_multiplier"
         /\ sample_log[d].op = "age_dependent_smoker_multiplier"
         /\ sample_log[c].args.age <= sample_log[d].args.age)
            => sample_log[c].outcome.value >= sample_log[d].outcome.value

\* every list of the tree `old` is a list at the same place of the tree
\* `new`, and every map of `old` a map at the same place of `new`
RECURSIVE C27_ContainersKept(_, _)
C27_ContainersKept(old, new) ==
    IF old.t = "map"
    THEN /\ new.t = "map"
         /\ \A k \in DOMAIN old.m :
               k \in DOMAIN new.m /\ C27_ContainersKept(old.m[k], new.m[k])
    ELSE IF old.t = "list"
    THEN /\ new.t = "list"
         /\ Len(new.l) >= Len(old.l)
         /\ \A k \in 1..Len(old.l) : C27_ContainersKept(old.l[k], new.l[k])
    ELSE TRUE

\* C27: in every build, a node that is a list (a map) in the tree after one
\* token is a list (a map) in the tree after every later token that was
\* applied without error, the final tree included.
C27_ContainerKindsAreKept ==
    \A c \in 1..Len(build_log) :
        \A i, j \in 1..Len(build_log[c].trees) :
            i < j => C27_ContainersKept(build_log[c].trees[i], build_log[c].trees[j])

\* C28: the results the summary is computed from are in ascending order of
\* trial id, whatever the pool size and the order the batches completed in,
\* and so are the failed trial ids the summary logs.
C28_ResultsInTrialIdOrder ==
    (entry = "main" /\ pc \in {"SUMMARIZING", "DONE"}) =>
        /\ \A i, j \in 1..Len(results) : i < j => results[i].trial_id < results[j].trial_id
        /\ summary # NoneV =>
              \A i, j \in 1..Len(summary.failed_ids) :
                  i < j => summary.failed_ids[i] < summary.failed_ids[j]

\* a pool of two workers has run at least three trials, and the summary names
\* two or more failed trials
C28_Witness ==
    /\ entry = "main" /\ pc = "DONE"
    /\ cfg.n_jobs = 2 /\ Len(results) >= 3
    /\ Len(summary.failed_ids) >= 2

\* the scheduler state a position of main belongs to: 1 PLANNING, 2 RUNNING
\* (inline or in the pool), 3 SUMMARIZING, 4 DONE; 0 outside the scheduler
C25_Stage(p) ==
    CASE p = "PLANNING" -> 1
      [] p \in {"RUNNING", "INLINE_SOLVING", "POOL"} -> 2
      [] p = "SUMMARIZING" -> 3
      [] p = "DONE" -> 4
      [] OTHER -> 0

\* a call of the solver has raised
C25_SolverRaised == \E j \in 1..Len(exec_log) : exec_log[j].reported = "raised"

\* every step stays in the scheduler state or enters the next one (a raising
\* solver call ends the run in RUNNING), and the plan is not changed once
\* PLANNING is left
C25_Step ==
    /\ C25_Stage(pc) > 0 =>
          \/ C25_Stage(pc') \in {C25_Stage(pc), C25_Stage(pc) + 1}
          \/ C25_Stage(pc) = 2 /\ pc' = "ABORTED" /\ C25_SolverRaised'
    /\ C25_Stage(pc) > 1 => trial_args' = trial_args /\ n_trials' = n_trials

\* nothing is dispatched before the plan is made; the summary is made only
\* when every dispatched trial has reported; no trial is run twice
C25_Safe ==
    /\ pc \in {"CMD_RUN", "HYDRA", "PLANNING"} =>
          trial_args = << >> /\ exec_log = << >> /\ dirs = {}
    /\ C25_Stage(pc) \in {3, 4} =>
          \A j \in 1..Len(exec_log) :
              exec_log[j].solver_calls > 0 => exec_log[j].reported \in Statuses
    /\ summary # NoneV => pc = "DONE"
    /\ \A j \in 1..Len(exec_log) : exec_log[j].solver_calls <= 1
    /\ \A i, j \in 1..Len(trial_args) :
          i < j => trial_args[i].trial_id # trial_args[j].trial_id

\* C25: the scheduler goes through PLANNING, RUNNING, SUMMARIZING and DONE in
\* this order, never skipping a state and never going back; no trial is
\* dispatched before the plan (ids and seeds) is fixed, the summary is made
\* only after every dispatched trial has completed, no trial is run a second
\* time; and unless a solver call raises, DONE is reached.
C25_SchedulerStages ==
    /\ []C25_Safe
    /\ [][C25_Step]_vars
    /\ (pc = "PLANNING") ~> (pc = "DONE" \/ C25_SolverRaised)

\* a pool run of the largest trial count is DONE: every planned trial was run
\* once, and one of them did not solve
C25_Witness ==
    /\ pc = "DONE" /\ Len(build_log) = 1
    /\ Len(exec_log) = MaxTrials
    /\ \A j \in 1..Len(exec_log) : exec_log[j].solver_calls = 1
    /\ summary.failed = 1

\* C26: when the build of the override tree (main line 127) raises, the
\* invocation ends there: no trial is planned, no trial directory is made and
\* the solver is not called.  Stated for every exception of the build, the
\* structural conflict error (RuntimeError) among them.
C26_BuildErrorAbortsBeforeAnyTrial ==
    (entry = "main" /\ Len(build_log) > 0 /\ build_log[1].outcome.t = "raise") =>
        /\ pc = "ABORTED"
        /\ trial_args = << >>
        /\ dirs = {}
        /\ \A j \in 1..Len(exec_log) : exec_log[j].solver_calls = 0

\* a command asking for the largest trial count on two workers whose tokens
\* hold a structural conflict: the build raised the RuntimeError
C26_Witness ==
    /\ entry = "main" /\ pc = "ABORTED"
    /\ Len(build_log) = 1 /\ build_log[1].outcome.t = "raise"
    /\ build_log[1].outcome.kind = "RuntimeError"
    /\ cfg.count = MaxTrials /\ cfg.n_jobs = 2

\* C30: a seeded trial is planned only on a case whose rate selection method
\* is stochastic or histocastic (the command refuses every other case before
\* main is started).
C30_SeededTrialsOnlyOnStochasticCases ==
    (entry = "main" /\ \E j \in 1..Len(trial_args) : trial_args[j].trial_seed # NoneV) =>
        get_rate_selection_method(case_data) \in {StrV("stochastic"), StrV("histocastic")}

====
